---------------------------- MODULE Spec2Model ----------------------------
(***************************************************************************)
(* Operational-transformation engine of the real-time-collaboration        *)
(* template (src/templates/performance/real-time-collaboration/src/        *)
(* operational_transform.rs).                                              *)
(*                                                                         *)
(* The document is a sequence of one-byte characters, an Operation is a    *)
(* record with the fields of the Rust struct (the three variants of        *)
(* OperationType are flattened into kind/position/length/content), and     *)
(* timestamps are integers in milliseconds.                                *)
(***************************************************************************)
EXTENDS Integers, Sequences, FiniteSets, TLC

VARIABLES
    document_content,   \* OperationalTransform.document_content
    operation_history,  \* OperationalTransform.operation_history
    revision,           \* OperationalTransform.revision
    last,               \* the last completed call and what it returned
    calls,              \* number of calls made so far
    replica,            \* a second engine (two-replica scenarios)
    scenario,           \* the base content and the two concurrent operations
    progress,           \* how far each of the two engines is in the scenario
    pc,                 \* per thread: position in the call it executes
    lock,               \* the three RwLocks: writer and readers
    local,              \* per thread: locals of the running call
    observed,           \* per thread: what the call returned
    store,              \* DocumentManager: documents, states, version history
    store_log,          \* the last DocumentManager call and the contents so far
    pairwise,           \* arguments and results of transform_operations alone
    build,              \* the build profile: overflow checks on or off
    operation_tx        \* AppState.operation_tx: the operations handed to send

engineVars == <<document_content, operation_history, revision>>
callVars == <<last, calls>>
pairVars == <<replica, scenario, progress>>
threadVars == <<pc, lock, local, observed>>
storeVars == <<store, store_log>>
restVars == <<store, store_log, pairwise, build, operation_tx>>
vars == <<document_content, operation_history, revision, last, calls,
          replica, scenario, progress, pc, lock, local, observed,
          store, store_log, pairwise, build, operation_tx>>

---------------------------------------------------------------------------
(* Bounds of the model *)

\* calls in one behaviour of Spec
MaxCalls == 3
\* largest position and length of an operation submitted in Spec
MaxPos == 2
\* longest base content of the two-replica scenario
MaxBase == 4
\* calls in one behaviour of SpecHistory, beyond max_history_size
ExtraCalls == 2
\* threads calling apply_operation in SpecThreads
NumAppliers == 2

(* Program constants *)

\* OperationalTransform::new: max_history_size
max_history_size == 1000
\* find_concurrent_operations: the 1 second window, in milliseconds
ConcurrencyWindowMs == 1000

\* usize arithmetic wraps at the word size (a 16 bit word stands for the
\* machine word; every value the specifications submit is far below it)
UsizeModulus == 2^16
UAdd(a, b) == (a + b) % UsizeModulus
USub(a, b) == (a - b) % UsizeModulus

\* usize as i64: the upper half of the word is negative
AsSigned(a) == ((a + UsizeModulus \div 2) % UsizeModulus) - UsizeModulus \div 2
\* a as i64 - b as i64, wrapping: the casts keep a and b modulo the word
CastSub(a, b) == ((a - b + UsizeModulus \div 2) % UsizeModulus) - UsizeModulus \div 2

Abs(x) == IF x < 0 THEN -x ELSE x
Min(a, b) == IF a <= b THEN a ELSE b
Max(a, b) == IF a >= b THEN a ELSE b

---------------------------------------------------------------------------
(* Strings *)

\* String::insert_str
insert_str(s, position, t) ==
    SubSeq(s, 1, position) \o t \o SubSeq(s, position + 1, Len(s))

\* String::drain(position..end)
drain(s, position, end) ==
    SubSeq(s, 1, position) \o SubSeq(s, end + 1, Len(s))

---------------------------------------------------------------------------
(* Operations *)

Insert(p, t) == [kind |-> "Insert", position |-> p, length |-> 0, content |-> t]
Delete(p, n) == [kind |-> "Delete", position |-> p, length |-> n, content |-> <<>>]
Retain(n) == [kind |-> "Retain", position |-> 0, length |-> n, content |-> <<>>]

\* struct Operation
Operation(id, client, ty, ts, rev) ==
    [id |-> id, client_id |-> client, kind |-> ty.kind,
     position |-> ty.position, length |-> ty.length, content |-> ty.content,
     timestamp |-> ts, revision |-> rev]

\* Operation { operation_type: ..., ..op.clone() }
WithType(op, ty) ==
    [op EXCEPT !.kind = ty.kind, !.position = ty.position,
               !.length = ty.length, !.content = ty.content]

\* Result<Option<(Operation, Operation)>>
Some(a, b) == [tag |-> "Some", fst |-> a, snd |-> b]
Err(a, b) == [tag |-> "Err", fst |-> a, snd |-> b]

---------------------------------------------------------------------------
(* Conflict resolvers *)

\* resolve_insert_delete_conflict
resolve_insert_delete_conflict(insert_op, delete_op) ==
    IF insert_op.kind = "Insert" /\ delete_op.kind = "Delete"
    THEN LET insert_pos == insert_op.position
             delete_pos == delete_op.position
             length == delete_op.length
             offset_from_delete_start == CastSub(insert_pos, delete_pos)
         IN  IF offset_from_delete_start >= 0 /\ offset_from_delete_start < length
             THEN LET pre_delete_length == offset_from_delete_start
                      post_delete_start == UAdd(insert_pos, Len(insert_op.content))
                      post_delete_length == USub(length, pre_delete_length)
                      pre == IF pre_delete_length > 0
                             THEN <<WithType(delete_op, Delete(delete_pos, pre_delete_length))>>
                             ELSE <<>>
                      post == IF post_delete_length > 0
                              THEN <<WithType(delete_op, Delete(post_delete_start, post_delete_length))>>
                              ELSE <<>>
                      transformed_ops == <<insert_op>> \o pre \o post
                  IN  IF Len(transformed_ops) >= 2
                      THEN Some(transformed_ops[1], transformed_ops[2])
                      ELSE Some(insert_op, delete_op)
             ELSE Some(insert_op, delete_op)
    ELSE Err(insert_op, delete_op)

\* resolve_overlapping_deletes ending the merged range where op1 ends
resolve_overlapping_deletes_FirstEnd(op1, op2) ==
    IF op1.kind = "Delete" /\ op2.kind = "Delete"
    THEN LET start == Min(op1.position, op2.position)
             end == UAdd(op1.position, op1.length)
             merged_length == USub(end, start)
             merged_delete ==
                 [WithType(op1, Delete(start, merged_length)) EXCEPT
                     !.timestamp = IF op1.timestamp < op2.timestamp
                                   THEN op1.timestamp ELSE op2.timestamp]
         IN  Some(merged_delete, merged_delete)
    ELSE Err(op1, op2)

\* resolve_overlapping_deletes
resolve_overlapping_deletes(op1, op2) ==
    IF op1.kind = "Delete" /\ op2.kind = "Delete"
    THEN LET start == Min(op1.position, op2.position)
             end == Max(UAdd(op1.position, op1.length), UAdd(op2.position, op2.length))
             merged_length == USub(end, start)
             merged_delete ==
                 [WithType(op1, Delete(start, merged_length)) EXCEPT
                     !.timestamp = IF op1.timestamp < op2.timestamp
                                   THEN op1.timestamp ELSE op2.timestamp]
         IN  Some(merged_delete, merged_delete)
    ELSE Err(op1, op2)

---------------------------------------------------------------------------
(* Pairwise transform *)

\* TransformInsertInsert with op1 left where it is in the second branch
TransformInsertInsert_NoShift(op1, op2) ==
    IF op1.position <= op2.position
    THEN Some(op1, WithType(op2, Insert(UAdd(op2.position, Len(op1.content)), op2.content)))
    ELSE Some(op1, op2)

\* TransformInsertInsert with each shift by the shifted insert's own length
TransformInsertInsert_OwnLength(op1, op2) ==
    IF op1.position <= op2.position
    THEN Some(op1, WithType(op2, Insert(UAdd(op2.position, Len(op2.content)), op2.content)))
    ELSE Some(WithType(op1, Insert(UAdd(op1.position, Len(op1.content)), op1.content)), op2)

\* transform_operations: (Insert, Insert)
TransformInsertInsert(op1, op2) ==
    IF op1.position <= op2.position
    THEN Some(op1, WithType(op2, Insert(UAdd(op2.position, Len(op1.content)), op2.content)))
    ELSE Some(WithType(op1, Insert(UAdd(op1.position, Len(op2.content)), op1.content)), op2)

\* TransformInsertDelete with an insert behind the delete left where it is
TransformInsertDelete_NoShift(op1, op2) ==
    IF op1.position <= op2.position
    THEN Some(op1, WithType(op2, Delete(UAdd(op2.position, Len(op1.content)), op2.length)))
    ELSE IF op1.position >= UAdd(op2.position, op2.length)
    THEN Some(op1, op2)
    ELSE resolve_insert_delete_conflict(op1, op2)

\* transform_operations: (Insert, Delete)
TransformInsertDelete(op1, op2) ==
    IF op1.position <= op2.position
    THEN Some(op1, WithType(op2, Delete(UAdd(op2.position, Len(op1.content)), op2.length)))
    ELSE IF op1.position >= UAdd(op2.position, op2.length)
    THEN Some(WithType(op1, Insert(USub(op1.position, op2.length), op1.content)), op2)
    ELSE resolve_insert_delete_conflict(op1, op2)

\* TransformDeleteInsert with an insert at the delete's start taken as inside
TransformDeleteInsert_StrictBefore(op1, op2) ==
    IF op2.position < op1.position
    THEN Some(WithType(op1, Delete(UAdd(op1.position, Len(op2.content)), op1.length)), op2)
    ELSE IF op2.position >= UAdd(op1.position, op1.length)
    THEN Some(op1, WithType(op2, Insert(USub(op2.position, op1.length), op2.content)))
    ELSE resolve_insert_delete_conflict(op2, op1)

\* transform_operations: (Delete, Insert)
TransformDeleteInsert(op1, op2) ==
    IF op2.position <= op1.position
    THEN Some(WithType(op1, Delete(UAdd(op1.position, Len(op2.content)), op1.length)), op2)
    ELSE IF op2.position >= UAdd(op1.position, op1.length)
    THEN Some(op1, WithType(op2, Insert(USub(op2.position, op1.length), op2.content)))
    ELSE resolve_insert_delete_conflict(op2, op1)

\* TransformDeleteDelete with the later delete moved by its own length
TransformDeleteDelete_OwnLength(op1, op2) ==
    IF UAdd(op1.position, op1.length) <= op2.position
    THEN Some(op1, WithType(op2, Delete(USub(op2.position, op2.length), op2.length)))
    ELSE IF UAdd(op2.position, op2.length) <= op1.position
    THEN Some(WithType(op1, Delete(USub(op1.position, op1.length), op1.length)), op2)
    ELSE resolve_overlapping_deletes(op1, op2)

\* transform_operations: (Delete, Delete)
TransformDeleteDelete(op1, op2) ==
    IF UAdd(op1.position, op1.length) <= op2.position
    THEN Some(op1, WithType(op2, Delete(USub(op2.position, op1.length), op2.length)))
    ELSE IF UAdd(op2.position, op2.length) <= op1.position
    THEN Some(WithType(op1, Delete(USub(op1.position, op2.length), op1.length)), op2)
    ELSE resolve_overlapping_deletes(op1, op2)

\* Result<Option<(Operation, Operation)>>: Ok(None)
None(a, b) == [tag |-> "None", fst |-> a, snd |-> b]

\* transform_operations finding a pair with a Retain incompatible
transform_operations_RetainIncompatible(op1, op2) ==
    CASE op1.kind = "Insert" /\ op2.kind = "Insert" -> TransformInsertInsert(op1, op2)
      [] op1.kind = "Insert" /\ op2.kind = "Delete" -> TransformInsertDelete(op1, op2)
      [] op1.kind = "Delete" /\ op2.kind = "Insert" -> TransformDeleteInsert(op1, op2)
      [] op1.kind = "Delete" /\ op2.kind = "Delete" -> TransformDeleteDelete(op1, op2)
      [] OTHER -> None(op1, op2)

\* transform_operations handing a pair with a Retain back in reverse
transform_operations_RetainSwapped(op1, op2) ==
    CASE op1.kind = "Insert" /\ op2.kind = "Insert" -> TransformInsertInsert(op1, op2)
      [] op1.kind = "Insert" /\ op2.kind = "Delete" -> TransformInsertDelete(op1, op2)
      [] op1.kind = "Delete" /\ op2.kind = "Insert" -> TransformDeleteInsert(op1, op2)
      [] op1.kind = "Delete" /\ op2.kind = "Delete" -> TransformDeleteDelete(op1, op2)
      [] OTHER -> Some(op2, op1)

\* transform_operations
transform_operations(op1, op2) ==
    CASE op1.kind = "Insert" /\ op2.kind = "Insert" -> TransformInsertInsert(op1, op2)
      [] op1.kind = "Insert" /\ op2.kind = "Delete" -> TransformInsertDelete(op1, op2)
      [] op1.kind = "Delete" /\ op2.kind = "Insert" -> TransformDeleteInsert(op1, op2)
      [] op1.kind = "Delete" /\ op2.kind = "Delete" -> TransformDeleteDelete(op1, op2)
      [] OTHER -> Some(op1, op2)

---------------------------------------------------------------------------
(* apply_operation, stage by stage *)

\* find_concurrent_operations without the client test
find_concurrent_operations_AnyClient(operation, history) ==
    SelectSeq(history,
              LAMBDA op: /\ op.revision >= operation.revision
                         /\ Abs(op.timestamp - operation.timestamp) < ConcurrencyWindowMs)

\* find_concurrent_operations with the window bound included
find_concurrent_operations_WindowInclusive(operation, history) ==
    SelectSeq(history,
              LAMBDA op: /\ op.client_id # operation.client_id
                         /\ op.revision >= operation.revision
                         /\ Abs(op.timestamp - operation.timestamp) <= ConcurrencyWindowMs)

\* find_concurrent_operations
find_concurrent_operations(operation, history) ==
    SelectSeq(history,
              LAMBDA op: /\ op.client_id # operation.client_id
                         /\ op.revision >= operation.revision
                         /\ Abs(op.timestamp - operation.timestamp) < ConcurrencyWindowMs)

\* LoopStart with conflict_resolved set from the beginning
LoopStart_Resolved(operation) ==
    [final_operation |-> operation, conflict_resolved |-> TRUE,
     transformed_operations |-> <<>>, returned |-> "no", winner |-> <<>>]

\* locals of apply_operation before the loop (lines 89-93)
LoopStart(operation) ==
    [final_operation |-> operation, conflict_resolved |-> FALSE,
     transformed_operations |-> <<>>, returned |-> "no", winner |-> <<>>]

\* apply_operation: the transform loop (lines 94-116); returned is "no" when
\* the loop runs to its end, "rejected" for the early return of line 107 and
\* "error" for the ? of line 95
RECURSIVE TransformLoop(_, _, _, _)
TransformLoop(operation, concurrent_ops, i, st) ==
    IF i > Len(concurrent_ops) \/ st.returned # "no"
    THEN st
    ELSE LET concurrent_op == concurrent_ops[i]
             t == transform_operations(st.final_operation, concurrent_op)
         IN  CASE t.tag = "Err" -> [st EXCEPT !.returned = "error"]
               [] t.tag = "Some" ->
                    TransformLoop(operation, concurrent_ops, i + 1,
                                  [st EXCEPT !.final_operation = t.fst,
                                             !.conflict_resolved = TRUE])
               [] OTHER ->
                    IF operation.timestamp < concurrent_op.timestamp
                    THEN TransformLoop(operation, concurrent_ops, i + 1,
                                       [st EXCEPT !.transformed_operations =
                                                      Append(@, concurrent_op)])
                    ELSE [st EXCEPT !.returned = "rejected",
                                    !.winner = <<concurrent_op>>]

\* Transformed with the concurrent entries taken newest first
Transformed_NewestFirst(operation, history) ==
    LET found == find_concurrent_operations(operation, history)
        newest_first == [i \in 1..Len(found) |-> found[Len(found) + 1 - i]]
    IN  TransformLoop(operation, newest_first, 1, LoopStart(operation))

\* apply_operation: detection and transformation (lines 88-116)
Transformed(operation, history) ==
    TransformLoop(operation, find_concurrent_operations(operation, history), 1,
                  LoopStart(operation))

\* InBounds with a Retain checked against the content's length
InBounds_RetainChecked(op, content) ==
    CASE op.kind = "Insert" -> op.position <= Len(content)
      [] op.kind = "Delete" -> /\ op.position < Len(content)
                               /\ UAdd(op.position, op.length) <= Len(content)
      [] OTHER -> op.length <= Len(content)

\* InBounds with the end of a delete's range left unchecked
InBounds_DeleteStartOnly(op, content) ==
    CASE op.kind = "Insert" -> op.position <= Len(content)
      [] op.kind = "Delete" -> op.position < Len(content)
      [] OTHER -> TRUE

\* apply_operation: the bounds check of the apply step (lines 119-137)
InBounds(op, content) ==
    CASE op.kind = "Insert" -> op.position <= Len(content)
      [] op.kind = "Delete" -> /\ op.position < Len(content)
                               /\ UAdd(op.position, op.length) <= Len(content)
      [] OTHER -> TRUE

\* Mutated with the inserted text put at the end
Mutated_InsertAppends(op, content) ==
    CASE op.kind = "Insert" -> content \o op.content
      [] op.kind = "Delete" -> drain(content, op.position, UAdd(op.position, op.length))
      [] OTHER -> content

\* apply_operation: the mutation of the apply step (lines 122, 130)
Mutated(op, content) ==
    CASE op.kind = "Insert" -> insert_str(content, op.position, op.content)
      [] op.kind = "Delete" -> drain(content, op.position, UAdd(op.position, op.length))
      [] OTHER -> content

\* Pushed with the cleanup taking the newest entry (pop_back)
Pushed_EvictsNewest(history, op) ==
    LET h == Append(history, op)
    IN  IF Len(h) > max_history_size THEN SubSeq(h, 1, Len(h) - 1) ELSE h

\* Pushed without the cleanup
Pushed_NoCleanup(history, op) == Append(history, op)

\* apply_operation: history.push_back and the cleanup (lines 144-149)
Pushed(history, op) ==
    LET h == Append(history, op)
    IN  IF Len(h) > max_history_size THEN Tail(h) ELSE h

\* struct OperationResult
OperationResult(success, new_revision, transformed_operations, conflict_resolved) ==
    [success |-> success, new_revision |-> new_revision,
     transformed_operations |-> transformed_operations,
     conflict_resolved |-> conflict_resolved]

\* An engine as one value
Engine(content, history, rev) ==
    [document_content |-> content, operation_history |-> history, revision |-> rev]

\* OperationalTransform::new
NewEngine == Engine(<<>>, <<>>, 0)

\* apply_operation: the content after the apply step (lines 119-137)
NextContent(success, final, content) ==
    IF success THEN Mutated(final, content) ELSE content

\* NextRevision that leaves the revision alone
NextRevision_Kept(success, rev) == rev

\* NextRevision with the increment moved before "if success"
NextRevision_Unconditional(success, rev) == rev + 1

\* apply_operation: the revision after "if success" (lines 139-141)
NextRevision(success, rev) ==
    IF success THEN rev + 1 ELSE rev

\* NextHistory with the append moved before "if success"
NextHistory_Unconditional(success, history, stamped) == Pushed(history, stamped)

\* apply_operation: the history after "if success" (lines 139-149)
NextHistory(success, history, stamped) ==
    IF success THEN Pushed(history, stamped) ELSE history

\* Returned with the push moved out of "if success"
Returned_Always(success, transformed_operations, stamped) ==
    Append(transformed_operations, stamped)

\* apply_operation: transformed_operations of the result (lines 151-157)
Returned(success, transformed_operations, stamped) ==
    IF success THEN Append(transformed_operations, stamped) ELSE transformed_operations

\* apply_operation as a whole: the engine after the call and what it returns
apply_operation(e, operation) ==
    LET st == Transformed(operation, e.operation_history)
        final == st.final_operation
        success == InBounds(final, e.document_content)
        new_revision == NextRevision(success, e.revision)
        stamped == [final EXCEPT !.revision = new_revision]
    IN  CASE st.returned = "error" ->
               [engine |-> e, outcome |-> "Err", final_operation |-> final,
                result |-> OperationResult(FALSE, e.revision, <<>>, FALSE)]
          [] st.returned = "rejected" ->
               [engine |-> e, outcome |-> "Ok", final_operation |-> final,
                result |-> OperationResult(FALSE, e.revision, st.winner, TRUE)]
          [] OTHER ->
               [engine |-> Engine(NextContent(success, final, e.document_content),
                                  NextHistory(success, e.operation_history, stamped),
                                  new_revision),
                outcome |-> "Ok",
                final_operation |-> IF success THEN stamped ELSE final,
                result |-> OperationResult(success, new_revision,
                               Returned(success, st.transformed_operations, stamped),
                               st.conflict_resolved)]

\* the build profiles: dev checks usize and i64 arithmetic for overflow and
\* panics, release wraps
Builds == {"debug", "release"}

\* a + b leaves the word
AddOverflows(a, b) == a + b >= UsizeModulus

\* the i64 difference of two usize values cast to i64 leaves the i64 range
CastSubOverflows(a, b) ==
    LET d == AsSigned(a) - AsSigned(b)
    IN  d >= UsizeModulus \div 2 \/ d < -(UsizeModulus \div 2)

\* transform_operations, Insert against Delete in either argument order
\* (lines 214-267, 313-318): an operation on the path taken overflows
InsertDeleteOverflows(ins, del) ==
    IF ins.position <= del.position
    THEN AddOverflows(del.position, Len(ins.content))
    ELSE IF AddOverflows(del.position, del.length)
    THEN TRUE
    ELSE IF ins.position >= del.position + del.length
    THEN FALSE
    ELSE \/ CastSubOverflows(ins.position, del.position)
         \/ LET offset == AsSigned(ins.position) - AsSigned(del.position)
            IN  /\ offset >= 0 /\ offset < del.length
                /\ AddOverflows(ins.position, Len(ins.content))

\* transform_operations, Delete against Delete (lines 270-295, 369-371): an
\* operation on the path taken overflows
DeleteDeleteOverflows(op1, op2) ==
    IF AddOverflows(op1.position, op1.length)
    THEN TRUE
    ELSE IF op1.position + op1.length <= op2.position
    THEN FALSE
    ELSE AddOverflows(op2.position, op2.length)

\* transform_operations: an operation on the path taken overflows
TransformOverflows(op1, op2) ==
    CASE op1.kind = "Insert" /\ op2.kind = "Insert" ->
             IF op1.position <= op2.position
             THEN AddOverflows(op2.position, Len(op1.content))
             ELSE AddOverflows(op1.position, Len(op2.content))
      [] op1.kind = "Insert" /\ op2.kind = "Delete" -> InsertDeleteOverflows(op1, op2)
      [] op1.kind = "Delete" /\ op2.kind = "Insert" -> InsertDeleteOverflows(op2, op1)
      [] op1.kind = "Delete" /\ op2.kind = "Delete" -> DeleteDeleteOverflows(op1, op2)
      [] OTHER -> FALSE

\* the transform loop (lines 94-116) from its i-th round on: a round overflows
RECURSIVE LoopOverflows(_, _, _)
LoopOverflows(final_operation, concurrent_ops, i) ==
    IF i > Len(concurrent_ops)
    THEN FALSE
    ELSE \/ TransformOverflows(final_operation, concurrent_ops[i])
         \/ LoopOverflows(transform_operations(final_operation, concurrent_ops[i]).fst,
                          concurrent_ops, i + 1)

\* the apply step (line 129): position + length overflows; it is evaluated
\* only when position < content.len()
ApplyStepOverflows(final_operation, content) ==
    /\ final_operation.kind = "Delete"
    /\ final_operation.position < Len(content)
    /\ AddOverflows(final_operation.position, final_operation.length)

\* the apply step (line 130): String::drain panics on a range whose start is
\* behind its end
DrainPanics(final_operation, content) ==
    /\ final_operation.kind = "Delete"
    /\ InBounds(final_operation, content)
    /\ final_operation.position > UAdd(final_operation.position, final_operation.length)

\* apply_operation panics instead of returning, in the given build
Panics(e, operation, profile) ==
    LET concurrent_ops == find_concurrent_operations(operation, e.operation_history)
        st == Transformed(operation, e.operation_history)
    IN  IF profile = "debug"
        THEN \/ LoopOverflows(operation, concurrent_ops, 1)
             \/ ApplyStepOverflows(st.final_operation, e.document_content)
        ELSE st.returned = "no" /\ DrainPanics(st.final_operation, e.document_content)

\* set_content starting a new history
set_content_NewHistory(e, content) ==
    Engine(content, <<>>, e.revision + 1)

\* set_content
set_content(e, content) ==
    Engine(content, e.operation_history, e.revision + 1)


---------------------------------------------------------------------------
(* Document store (src/temp-cli-package/package/templates/performance/     *)
(* real-time-collaboration/src/document.rs).  Of a Document and a          *)
(* DocumentState the content and the counters are kept; titles, times,     *)
(* metadata and collaborator lists are read by no operation modelled here. *)

\* DocumentManager::new: max_versions_per_document
max_versions_per_document == 100

\* a map with key k set to v (HashMap::insert)
Inserted(map, k, v) ==
    [x \in DOMAIN map \cup {k} |-> IF x = k THEN v ELSE map[x]]

\* struct DocumentVersion
DocumentVersion(version, content) == [version |-> version, content |-> content]

\* struct DocumentManager
DocumentManager(documents, document_states, version_history) ==
    [documents |-> documents, document_states |-> document_states,
     version_history |-> version_history]

\* DocumentManager::new
NewDocumentManager == DocumentManager(<<>>, <<>>, <<>>)

\* DocumentManager::create_document, with the fresh document_id given
create_document(m, document_id, content) ==
    LET document == [content |-> content, version |-> 1]
        document_state == [document |-> document, current_revision |-> 1,
                           operation_count |-> 0]
        initial_version == DocumentVersion(1, content)
    IN  DocumentManager(Inserted(m.documents, document_id, document),
                        Inserted(m.document_states, document_id, document_state),
                        Inserted(m.version_history, document_id, <<initial_version>>))

\* update_document_content: the block that writes documents and states
\* (lines 183-217)
ContentWritten(m, document_id, new_content) ==
    LET documents ==
            IF document_id \in DOMAIN m.documents
            THEN [m.documents EXCEPT ![document_id].content = new_content,
                                     ![document_id].version = @ + 1]
            ELSE m.documents
        states ==
            IF document_id \in DOMAIN m.document_states
            THEN [m.document_states EXCEPT
                     ![document_id].document.content = new_content,
                     ![document_id].document.version = @ + 1,
                     ![document_id].current_revision = @ + 1,
                     ![document_id].operation_count = @ + 1]
            ELSE m.document_states
    IN  DocumentManager(documents, states, m.version_history)

\* DocumentManager::create_version
create_version(m, document_id, content) ==
    IF document_id \notin DOMAIN m.documents
    THEN [manager |-> m, outcome |-> "Err"]
    ELSE LET version == m.documents[document_id].version + 1
             new_version == DocumentVersion(version, content)
             old == IF document_id \in DOMAIN m.version_history
                    THEN m.version_history[document_id] ELSE <<>>
             versions == Append(old, new_version)
             kept == IF Len(versions) > max_versions_per_document
                     THEN Tail(versions) ELSE versions
         IN  [manager |-> DocumentManager(m.documents, m.document_states,
                              Inserted(m.version_history, document_id, kept)),
              outcome |-> "Ok"]

\* DocumentManager::update_document_content
update_document_content(m, document_id, new_content) ==
    create_version(ContentWritten(m, document_id, new_content), document_id, new_content)

\* rollback_to_version: the snapshot looked up (lines 332-342); a sequence of
\* no or one content
TargetContent(m, document_id, target_version) ==
    IF document_id \in DOMAIN m.version_history
    THEN LET versions == m.version_history[document_id]
             found == SelectSeq(versions, LAMBDA v: v.version = target_version)
         IN  IF found = <<>> THEN <<>> ELSE <<found[1].content>>
    ELSE <<>>

\* DocumentManager::rollback_to_version
rollback_to_version(m, document_id, target_version) ==
    LET target_content == TargetContent(m, document_id, target_version)
    IN  IF target_content # <<>>
        THEN update_document_content(m, document_id, target_content[1])
        ELSE [manager |-> m, outcome |-> "Err"]

---------------------------------------------------------------------------
(* Inputs *)

Alphabet == <<"a", "b", "c", "d", "e", "f", "g", "h">>

\* a document of n distinct characters
Base(n) == SubSeq(Alphabet, 1, n)

Clients == {1, 2}

\* two timestamps inside one window of each other and one outside
Timestamps == {0, 1000}

\* the lengths of the deletes submitted in Spec
Lengths == {0, 1, 2}

\* the operation types a client submits in Spec
SpecTypes ==
    {Insert(p, <<"x">>) : p \in 0..MaxPos}
    \cup {Delete(p, n) : p \in 0..MaxPos, n \in Lengths}
    \cup {Retain(MaxPos)}

\* the contents a document store loads in Spec
SpecContents == {Base(n) : n \in 1..MaxPos}

NoOperation == Operation(0, 0, Retain(0), 0, 0)
NoResult == OperationResult(FALSE, 0, <<>>, FALSE)
NoProgress == [engine |-> 0, replica |-> 0, results |-> <<>>, replica_results |-> <<>>]
NoCall ==
    [call |-> "none", operation |-> NoOperation, content |-> <<>>, outcome |-> "Ok",
     final_operation |-> NoOperation, result |-> NoResult]

---------------------------------------------------------------------------
(* One engine, called sequentially *)

EngineNow == Engine(document_content, operation_history, revision)

InitEngine ==
    /\ document_content = NewEngine.document_content
    /\ operation_history = NewEngine.operation_history
    /\ revision = NewEngine.revision

InitCalls == last = NoCall /\ calls = 0

InitPair ==
    /\ replica = NewEngine
    /\ scenario = [base |-> <<>>, A |-> NoOperation, B |-> NoOperation]
    /\ progress = NoProgress

InitThreads ==
    /\ pc = <<>>
    /\ lock = <<>>
    /\ local = <<>>
    /\ observed = <<>>

\* what store_log holds before any DocumentManager call
NoStoreCall ==
    [call |-> "none", document_id |-> 0, target_version |-> 0, outcome |-> "Ok",
     calls |-> 0, rollbacks |-> 0, version_before |-> 0, content_at |-> <<>>]

InitStore == store = NewDocumentManager /\ store_log = NoStoreCall

\* what pairwise holds before transform_operations is called
NoPairwise ==
    [op1 |-> NoOperation, op2 |-> NoOperation, done |-> FALSE,
     forward |-> Some(NoOperation, NoOperation),
     backward |-> Some(NoOperation, NoOperation)]

InitPairwise == pairwise = NoPairwise

\* the profile where no specification submits values near the word size: the
\* two profiles differ only when an addition or subtraction leaves the word
InitBuild == build = "release"

\* AppState::new: nothing was sent yet
InitChannel == operation_tx = <<>>

InitRest == InitStore /\ InitPairwise /\ InitBuild /\ InitChannel

Init == InitEngine /\ InitCalls /\ InitPair /\ InitThreads /\ InitRest

\* a caller runs apply_operation(operation) to completion
Apply(operation) ==
    LET r == apply_operation(EngineNow, operation)
    IN  /\ document_content' = r.engine.document_content
        /\ operation_history' = r.engine.operation_history
        /\ revision' = r.engine.revision
        /\ last' = [call |-> "apply_operation", operation |-> operation,
                    content |-> <<>>,
                    outcome |-> r.outcome, final_operation |-> r.final_operation,
                    result |-> r.result]
        /\ calls' = calls + 1

\* a caller runs set_content(content) to completion
SetContent(content) ==
    LET e == set_content(EngineNow, content)
    IN  /\ document_content' = e.document_content
        /\ operation_history' = e.operation_history
        /\ revision' = e.revision
        /\ last' = [NoCall EXCEPT !.call = "set_content", !.content = content]
        /\ calls' = calls + 1

ApplyOperationCall ==
    /\ calls < MaxCalls
    /\ \E ty \in SpecTypes, c \in Clients, ts \in Timestamps, rev \in {0, revision} :
           Apply(Operation(calls + 1, c, ty, ts, rev))
    /\ UNCHANGED <<pairVars, threadVars, restVars>>

SetContentCall ==
    /\ calls < MaxCalls
    /\ \E content \in SpecContents : SetContent(content)
    /\ UNCHANGED <<pairVars, threadVars, restVars>>

Next == ApplyOperationCall \/ SetContentCall

Spec == Init /\ [][Next]_vars

---------------------------------------------------------------------------
(* Two replicas and two concurrent operations (SpecPair)                   *)
(*                                                                         *)
(* Both engines load the same base with set_content (revision 1).  Client  *)
(* 1 issues A and client 2 issues B against that base, with timestamps     *)
(* less than the window apart.  The engine is given A then B, the replica  *)
(* B then A.                                                               *)

\* the texts the two clients insert
TextsA == {<<"x">>, <<"x", "y">>}
TextsB == {<<"p">>, <<"p", "q">>}

\* timestamps of A and B: equal, A earlier, B earlier
PairTimes == {<<0, 0>>, <<0, 500>>, <<500, 0>>}

\* the operation types that are in bounds on a base of n characters
PairTypes(n, texts) ==
    {Insert(p, t) : p \in 0..n, t \in texts}
    \cup UNION {{Delete(p, k) : k \in 0..(n - p)} : p \in 0..n}
    \cup {Retain(n)}

Scenarios ==
    UNION {{[base |-> Base(n),
             A |-> Operation(1, 1, tyA, ts[1], 1),
             B |-> Operation(2, 2, tyB, ts[2], 1)] :
                tyA \in PairTypes(n, TextsA), tyB \in PairTypes(n, TextsB),
                ts \in PairTimes} :
           n \in 0..MaxBase}

InitSpecPair ==
    /\ InitEngine /\ InitCalls /\ InitThreads /\ InitRest
    /\ replica = NewEngine
    /\ scenario \in Scenarios
    /\ progress = NoProgress

\* the engine loads the base
EngineLoad ==
    /\ progress.engine = 0
    /\ SetContent(scenario.base)
    /\ progress' = [progress EXCEPT !.engine = 1]
    /\ UNCHANGED <<replica, scenario, threadVars, restVars>>

\* the engine is given A, then B
EngineApply ==
    /\ progress.engine \in {1, 2}
    /\ LET operation == IF progress.engine = 1 THEN scenario.A ELSE scenario.B
       IN  /\ Apply(operation)
           /\ progress' = [progress EXCEPT
                  !.engine = @ + 1,
                  !.results = Append(@, apply_operation(EngineNow, operation).result)]
    /\ UNCHANGED <<replica, scenario, threadVars, restVars>>

\* the replica loads the base
ReplicaLoad ==
    /\ progress.replica = 0
    /\ replica' = set_content(replica, scenario.base)
    /\ progress' = [progress EXCEPT !.replica = 1]
    /\ UNCHANGED <<engineVars, callVars, scenario, threadVars, restVars>>

\* the replica is given B, then A
ReplicaApply ==
    /\ progress.replica \in {1, 2}
    /\ LET operation == IF progress.replica = 1 THEN scenario.B ELSE scenario.A
           r == apply_operation(replica, operation)
       IN  /\ replica' = r.engine
           /\ progress' = [progress EXCEPT
                  !.replica = @ + 1,
                  !.replica_results = Append(@, r.result)]
    /\ UNCHANGED <<engineVars, callVars, scenario, threadVars, restVars>>

NextPair == EngineLoad \/ EngineApply \/ ReplicaLoad \/ ReplicaApply

SpecPair == InitSpecPair /\ [][NextPair]_vars

EngineDone == progress.engine = 3
ReplicaDone == progress.replica = 3

\* position of a base character in the base
Idx(c) == CHOOSE i \in 1..Len(Alphabet) : Alphabet[i] = c

\* the characters of a string
Chars(s) == {s[i] : i \in 1..Len(s)}

\* number of places where t occurs in s as a contiguous substring
Occurrences(t, s) ==
    Cardinality({i \in 1..(Len(s) - Len(t) + 1) : SubSeq(s, i, i + Len(t) - 1) = t})

\* a is ordered before b: earlier timestamp, then smaller client identifier
Earlier(a, b) ==
    \/ a.timestamp < b.timestamp
    \/ a.timestamp = b.timestamp /\ a.client_id < b.client_id

\* C1: the engine given A then B and the engine given B then A end with
\* identical content.
C1_Convergence ==
    (EngineDone /\ ReplicaDone) => document_content = replica.document_content

\* the content C2 expects for two inserts at the same position
SamePositionExpected ==
    LET A == scenario.A
        B == scenario.B
        first == IF Earlier(A, B) THEN A ELSE B
        second == IF Earlier(A, B) THEN B ELSE A
    IN  SubSeq(scenario.base, 1, A.position) \o first.content \o second.content
            \o SubSeq(scenario.base, A.position + 1, Len(scenario.base))

SamePositionInserts ==
    /\ scenario.A.kind = "Insert" /\ scenario.B.kind = "Insert"
    /\ scenario.A.position = scenario.B.position

\* C2: two concurrent inserts at the same position end with the text of the
\* earlier-timestamped one (equal timestamps: the smaller client identifier)
\* before the other's, whichever is submitted first.
C2_EarlierInsertFirst ==
    SamePositionInserts =>
        /\ EngineDone => document_content = SamePositionExpected
        /\ ReplicaDone => replica.document_content = SamePositionExpected

\* A is an Insert strictly inside the range of the Delete B
InsertAInsideDeleteB ==
    /\ scenario.A.kind = "Insert" /\ scenario.B.kind = "Delete"
    /\ scenario.B.position < scenario.A.position
    /\ scenario.A.position < scenario.B.position + scenario.B.length

\* A is a Delete and B an Insert strictly inside its range
InsertBInsideDeleteA ==
    /\ scenario.A.kind = "Delete" /\ scenario.B.kind = "Insert"
    /\ scenario.A.position < scenario.B.position
    /\ scenario.B.position < scenario.A.position + scenario.A.length

\* the base characters a delete targets
Targeted(del) ==
    {scenario.base[i] : i \in (del.position + 1)..(del.position + del.length)}

\* C3: Insert accepted first, conflicting Delete second (engine order A, B):
\* the second call succeeds, the inserted text is in the content exactly once
\* and none of the targeted base characters is left.
C3_DeleteAfterInsert ==
    (InsertAInsideDeleteB /\ EngineDone) =>
        /\ progress.results[2].success
        /\ Occurrences(scenario.A.content, document_content) = 1
        /\ Chars(document_content) \cap Targeted(scenario.B) = {}

\* C4: Delete accepted first, conflicting Insert second (engine order A, B):
\* the second call succeeds and the whole inserted text is in the content.
C4_InsertAfterDelete ==
    (InsertBInsideDeleteA /\ EngineDone) =>
        /\ progress.results[2].success
        /\ Occurrences(scenario.B.content, document_content) >= 1

\* A and B are deletes whose ranges overlap
OverlappingDeletes ==
    /\ scenario.A.kind = "Delete" /\ scenario.B.kind = "Delete"
    /\ scenario.A.position < scenario.B.position + scenario.B.length
    /\ scenario.B.position < scenario.A.position + scenario.A.length

\* the base without the union of the two ranges
UnionRemoved ==
    SelectSeq(scenario.base,
              LAMBDA c: c \notin Targeted(scenario.A) \cup Targeted(scenario.B))

\* C5: after two overlapping concurrent deletes, in either order, the content
\* is the base with exactly the union of the two ranges removed.
C5_OverlappingDeletes ==
    OverlappingDeletes =>
        /\ EngineDone => document_content = UnionRemoved
        /\ ReplicaDone => replica.document_content = UnionRemoved

---------------------------------------------------------------------------
(* Claims about one engine called sequentially (Spec) *)

\* this step is a call of apply_operation; last' holds what it returned
ApplyReturns == calls' = calls + 1 /\ last'.call = "apply_operation"

\* op does not fit the content: position > len or position+length > len
OutOfBounds(op, content) ==
    /\ op.kind \in {"Insert", "Delete"}
    /\ \/ op.position > Len(content)
       \/ op.position + op.length > Len(content)

\* the call failed and left content and revision as they were
FailsUnchanged ==
    /\ ~last'.result.success
    /\ document_content' = document_content
    /\ revision' = revision

C7_AllOrNothing ==
    [][(ApplyReturns /\ ~last'.result.success) => UNCHANGED engineVars]_vars

\* C7 witness: a call failed the bounds check after its operation was
\* transformed against a non-empty history.
C7_Witness ==
    /\ last.call = "apply_operation"
    /\ ~last.result.success
    /\ last.result.conflict_resolved
    /\ Len(operation_history) > 0
    /\ Len(document_content) > 0

\* C8: a successful apply_operation increases the revision by exactly 1 and
\* reports the new value; a failed one leaves it unchanged and reports the
\* unchanged value; no call of apply_operation or set_content decreases it.
C8_RevisionMonotonic ==
    [][/\ (ApplyReturns /\ last'.result.success)
              => (revision' = revision + 1 /\ last'.result.new_revision = revision')
       /\ (ApplyReturns /\ ~last'.result.success)
              => (revision' = revision /\ last'.result.new_revision = revision)
       /\ revision' >= revision]_vars

\* C8 witness: after a set_content, a failed call and a successful call the
\* revision is 2 and the successful call reported it.
C8_Witness ==
    /\ calls = 3
    /\ last.call = "apply_operation"
    /\ last.result.success
    /\ last.result.new_revision = 2
    /\ revision = 2

---------------------------------------------------------------------------
(* More accepted operations than the history holds (SpecHistory) *)

\* the operation of one caller who retains a character again and again
HistoryOperation == Operation(calls + 1, 1, Retain(1), 0, 0)

HistoryCall ==
    /\ calls < max_history_size + ExtraCalls
    /\ Apply(HistoryOperation)
    /\ UNCHANGED <<pairVars, threadVars, restVars>>

SpecHistory == Init /\ [][HistoryCall]_vars

\* C9: in every reachable state, after any number of successful
\* applications, the history holds at most max_history_size entries.
C9_HistoryBound == Len(operation_history) <= max_history_size

\* C9 witness: more than max_history_size operations were accepted, the
\* history is full and its oldest entries are gone.
C9_Witness ==
    /\ revision > max_history_size
    /\ last.result.success
    /\ Len(operation_history) = max_history_size
    /\ operation_history[1].revision = revision - max_history_size + 1

---------------------------------------------------------------------------
(* Concurrent callers of one engine (SpecThreads)                          *)
(*                                                                         *)
(* Every thread makes its calls once.  A step is one lock acquisition or   *)
(* one access to one of the three shared fields.                           *)

Appliers == 1..NumAppliers
Reader == NumAppliers + 1
Setter == NumAppliers + 2
Threads == 1..(NumAppliers + 2)

\* the operations applier t may submit: it is client t
ThreadOperations(t) ==
    {Operation(t, t, ty, 0, 0) : ty \in {Insert(0, <<"x">>), Delete(0, 1)}}

\* the content the setter loads
SetterContent == Base(1)

\* ApplyLocks without the revision lock
ApplyLocks_ContentHistory == <<"content", "history">>

\* the write locks apply_operation takes on entry, in order (lines 83-85)
ApplyLocks == <<"content", "history", "revision">>

NoLocal ==
    [operation |-> NoOperation, st |-> LoopStart(NoOperation), success |-> FALSE,
     stamped |-> NoOperation, before |-> NewEngine]
NoObserved == [result |-> NoResult, revision |-> 0, content |-> <<>>]
Unlocked == [writer |-> 0, readers |-> {}]

InitSpecThreads ==
    /\ InitEngine /\ InitCalls /\ InitPair /\ InitRest
    /\ pc = [t \in Threads |-> "start"]
    /\ lock = [l \in {"content", "history", "revision"} |-> Unlocked]
    /\ local = [t \in Appliers |-> NoLocal]
    /\ observed = [t \in Threads |-> NoObserved]

\* RwLock::write returns: no writer and no reader holds the lock
WriteFree(l) == lock[l].writer = 0 /\ lock[l].readers = {}

\* RwLock::read returns: no writer holds the lock
ReadFree(l) == lock[l].writer = 0

\* Released with the guards kept
Released_Kept(t, ls) == lock

\* the locks with the write guards of thread t dropped
Released(t, ls) ==
    [l \in DOMAIN lock |->
        IF l \in ls /\ lock[l].writer = t THEN [lock[l] EXCEPT !.writer = 0] ELSE lock[l]]

Goto(t, label) == pc' = [pc EXCEPT ![t] = label]

\* apply_operation, lines 83-85: take the next write lock
ApplyLock(t) ==
    /\ pc[t] \in {"start", "lock2", "lock3"}
    /\ LET i == CASE pc[t] = "start" -> 1 [] pc[t] = "lock2" -> 2 [] OTHER -> 3
       IN  IF i > Len(ApplyLocks)
           THEN /\ Goto(t, "transform")
                /\ UNCHANGED <<lock, local>>
           ELSE /\ WriteFree(ApplyLocks[i])
                /\ lock' = [lock EXCEPT ![ApplyLocks[i]].writer = t]
                /\ IF pc[t] = "start"
                   THEN \E operation \in ThreadOperations(t) :
                            local' = [local EXCEPT ![t].operation = operation]
                   ELSE UNCHANGED local
                /\ Goto(t, CASE i = 1 -> "lock2" [] i = 2 -> "lock3" [] OTHER -> "transform")
    /\ UNCHANGED <<engineVars, callVars, pairVars, observed, restVars>>

\* apply_operation, lines 88-116: detection and the transform loop
ApplyTransform(t) ==
    /\ pc[t] = "transform"
    /\ LET st == Transformed(local[t].operation, operation_history)
       IN  /\ local' = [local EXCEPT ![t].st = st, ![t].before = EngineNow]
           /\ Goto(t, IF st.returned = "no" THEN "apply" ELSE "return")
    /\ UNCHANGED <<engineVars, lock, callVars, pairVars, observed, restVars>>

\* apply_operation, lines 119-137: the apply step
ApplyMutate(t) ==
    /\ pc[t] = "apply"
    /\ LET final == local[t].st.final_operation
           success == InBounds(final, document_content)
       IN  /\ document_content' = NextContent(success, final, document_content)
           /\ local' = [local EXCEPT ![t].success = success]
           /\ Goto(t, IF success THEN "bump" ELSE "return")
    /\ UNCHANGED <<operation_history, revision, lock, callVars, pairVars, observed, restVars>>

\* apply_operation, lines 141-142: the revision increment and the stamp
ApplyBump(t) ==
    /\ pc[t] = "bump"
    /\ revision' = NextRevision(TRUE, revision)
    /\ local' = [local EXCEPT
           ![t].stamped = [local[t].st.final_operation EXCEPT !.revision = revision']]
    /\ Goto(t, "push")
    /\ UNCHANGED <<document_content, operation_history, lock, callVars, pairVars, observed, restVars>>

\* apply_operation, lines 144-149: the history append and cleanup
ApplyPush(t) ==
    /\ pc[t] = "push"
    /\ operation_history' = NextHistory(TRUE, operation_history, local[t].stamped)
    /\ Goto(t, "return")
    /\ UNCHANGED <<document_content, revision, lock, local, callVars, pairVars, observed, restVars>>

\* what apply_operation returns from its locals and *revision
ThreadResult(t) ==
    CASE local[t].st.returned = "error" -> NoResult
      [] local[t].st.returned = "rejected" ->
           OperationResult(FALSE, revision, local[t].st.winner, TRUE)
      [] OTHER ->
           OperationResult(local[t].success, revision,
               Returned(local[t].success, local[t].st.transformed_operations,
                        local[t].stamped),
               local[t].st.conflict_resolved)

\* apply_operation, lines 107-112 and 154-160: return, dropping the guards
ApplyReturn(t) ==
    /\ pc[t] = "return"
    /\ observed' = [observed EXCEPT ![t].result = ThreadResult(t)]
    /\ lock' = Released(t, {"content", "history", "revision"})
    /\ Goto(t, "done")
    /\ UNCHANGED <<engineVars, local, callVars, pairVars, restVars>>

\* get_revision then get_content, each: take the read lock, copy, drop it
ReaderLock ==
    /\ pc[Reader] \in {"start", "gc"}
    /\ LET l == IF pc[Reader] = "start" THEN "revision" ELSE "content"
       IN  /\ ReadFree(l)
           /\ lock' = [lock EXCEPT ![l].readers = @ \cup {Reader}]
    /\ Goto(Reader, IF pc[Reader] = "start" THEN "gr_read" ELSE "gc_read")
    /\ UNCHANGED <<engineVars, local, callVars, pairVars, observed, restVars>>

ReaderRead ==
    /\ pc[Reader] \in {"gr_read", "gc_read"}
    /\ IF pc[Reader] = "gr_read"
       THEN /\ observed' = [observed EXCEPT ![Reader].revision = revision]
            /\ lock' = [lock EXCEPT !["revision"].readers = @ \ {Reader}]
            /\ Goto(Reader, "gc")
       ELSE /\ observed' = [observed EXCEPT ![Reader].content = document_content]
            /\ lock' = [lock EXCEPT !["content"].readers = @ \ {Reader}]
            /\ Goto(Reader, "done")
    /\ UNCHANGED <<engineVars, local, callVars, pairVars, restVars>>

\* set_content, line 402 then line 403: take the write lock
SetterLock ==
    /\ pc[Setter] \in {"start", "sr"}
    /\ LET l == IF pc[Setter] = "start" THEN "content" ELSE "revision"
       IN  /\ WriteFree(l)
           /\ lock' = [lock EXCEPT ![l].writer = Setter]
    /\ Goto(Setter, IF pc[Setter] = "start" THEN "sc_write" ELSE "sr_write")
    /\ UNCHANGED <<engineVars, local, callVars, pairVars, observed, restVars>>

\* SetterWrite with the two statements of set_content exchanged
SetterWrite_RevisionFirst ==
    /\ pc[Setter] \in {"sc_write", "sr_write"}
    /\ IF pc[Setter] = "sc_write"
       THEN /\ revision' = revision + 1
            /\ lock' = Released(Setter, {"content"})
            /\ Goto(Setter, "sr")
            /\ UNCHANGED <<document_content, operation_history>>
       ELSE /\ document_content' = SetterContent
            /\ lock' = Released(Setter, {"revision"})
            /\ Goto(Setter, "done")
            /\ UNCHANGED <<operation_history, revision>>
    /\ UNCHANGED <<local, callVars, pairVars, observed, restVars>>

\* set_content, line 402 then line 403: write and drop the guard
SetterWrite ==
    /\ pc[Setter] \in {"sc_write", "sr_write"}
    /\ IF pc[Setter] = "sc_write"
       THEN /\ document_content' = SetterContent
            /\ lock' = Released(Setter, {"content"})
            /\ Goto(Setter, "sr")
            /\ UNCHANGED <<operation_history, revision>>
       ELSE /\ revision' = revision + 1
            /\ lock' = Released(Setter, {"revision"})
            /\ Goto(Setter, "done")
            /\ UNCHANGED <<document_content, operation_history>>
    /\ UNCHANGED <<local, callVars, pairVars, observed, restVars>>

NextThreads ==
    \/ \E t \in Appliers :
           \/ ApplyLock(t) \/ ApplyTransform(t) \/ ApplyMutate(t)
           \/ ApplyBump(t) \/ ApplyPush(t) \/ ApplyReturn(t)
    \/ ReaderLock \/ ReaderRead
    \/ SetterLock \/ SetterWrite

SpecThreads == InitSpecThreads /\ [][NextThreads]_vars

\* the part of apply_operation from concurrency detection to the return
Critical == {"transform", "apply", "bump", "push", "return"}

\* no two apply_operation calls are between detection and return at once
Serialized ==
    \A a, b \in Appliers : (a # b /\ pc[a] \in Critical) => pc[b] \notin Critical

\* no reader copies a field while an apply_operation call is between
\* detection and return
ReaderExcluded ==
    (\E a \in Appliers : pc[a] \in Critical) => pc[Reader] \notin {"gr_read", "gc_read"}

\* a returning call leaves the engine, and returns the result, that the whole
\* of apply_operation yields on the engine it found at detection
AtomicEffect ==
    \A t \in Appliers :
        (pc[t] = "return" /\ pc'[t] = "done") =>
            LET r == apply_operation(local[t].before, local[t].operation)
            IN  /\ EngineNow = r.engine
                /\ observed'[t].result = r.result

\* C10: apply_operation calls are serialized, each call's steps take effect
\* as one, and no reader copies a field in the middle of a call.
C10_Atomic == [][Serialized' /\ ReaderExcluded' /\ AtomicEffect]_vars

\* C10 witness: both appliers returned, the second after transforming against
\* the first one's entry, while the reader and the setter ran as well.
C10_Witness ==
    /\ \A t \in Threads : pc[t] = "done"
    /\ Len(operation_history) = 2
    /\ \E t \in Appliers : observed[t].result.conflict_resolved
    /\ observed[Reader].revision = 1
    /\ observed[Reader].content = <<"x">>

---------------------------------------------------------------------------
(* Calls with timestamps on both sides of the concurrency window           *)
(* (SpecWindow)                                                            *)

\* calls in one behaviour of SpecWindow
WindowCalls == 3

\* timestamps 0 ms, 999 ms and 1000 ms apart
WindowTimestamps == {0, ConcurrencyWindowMs - 1, ConcurrencyWindowMs}

\* the operation types a client submits in SpecWindow
WindowTypes == {Insert(0, <<"x">>), Insert(1, <<"x">>), Delete(0, 1)}

WindowApplyCall ==
    /\ calls < WindowCalls
    /\ \E ty \in WindowTypes, c \in Clients, ts \in WindowTimestamps, rev \in 0..revision :
           Apply(Operation(calls + 1, c, ty, ts, rev))
    /\ UNCHANGED <<pairVars, threadVars, restVars>>

WindowSetContentCall ==
    /\ calls < WindowCalls
    /\ \E content \in SpecContents : SetContent(content)
    /\ UNCHANGED <<pairVars, threadVars, restVars>>

NextWindow == WindowApplyCall \/ WindowSetContentCall

SpecWindow == Init /\ [][NextWindow]_vars

\* entry meets the revision and the time-window criterion for incoming
MeetsRevisionAndWindow(entry, incoming) ==
    /\ entry.revision >= incoming.revision
    /\ entry.timestamp - incoming.timestamp \in -999..999

\* every history entry that meets the two criteria is the incoming client's own
OnlyOwnEntriesMatch(incoming, history) ==
    \A i \in DOMAIN history :
        MeetsRevisionAndWindow(history[i], incoming)
            => history[i].client_id = incoming.client_id

\* a and b are the same kind of operation at the same place
SameEdit(a, b) ==
    /\ a.kind = b.kind /\ a.position = b.position
    /\ a.length = b.length /\ a.content = b.content

\* content with op carried out at its own position
Edited(op, content) ==
    CASE op.kind = "Insert" -> insert_str(content, op.position, op.content)
      [] op.kind = "Delete" -> drain(content, op.position, op.position + op.length)
      [] OTHER -> content

\* C11: an operation for which every history entry meeting the revision and
\* time-window criteria is from its own client is not transformed: it is
\* applied to the current content (the content after that client's earlier
\* operations) with exactly its submitted position and length.
C11_OwnOperationsNotTransformed ==
    [][(ApplyReturns /\ OnlyOwnEntriesMatch(last'.operation, operation_history))
           => /\ SameEdit(last'.final_operation, last'.operation)
              /\ ~last'.result.conflict_resolved
              /\ document_content' = IF last'.result.success
                                      THEN Edited(last'.operation, document_content)
                                      ELSE document_content]_vars

\* C11 witness: a client's Insert at 1 was applied at 1, right after its own
\* Insert at 0 with the same timestamp and a revision not below its base.
C11_Witness ==
    /\ last.call = "apply_operation"
    /\ last.result.success
    /\ Len(operation_history) = 2
    /\ operation_history[1].client_id = last.operation.client_id
    /\ operation_history[1].timestamp = last.operation.timestamp
    /\ operation_history[1].revision >= last.operation.revision
    /\ operation_history[1].kind = "Insert" /\ operation_history[1].position = 0
    /\ last.operation.kind = "Insert" /\ last.operation.position = 1
    /\ operation_history[2].position = 1
    /\ document_content = <<"x", "x">>

\* this step is a call of set_content; last' holds its argument
SetContentReturns == calls' = calls + 1 /\ last'.call = "set_content"

\* C13: set_content(c) in any state replaces the content with exactly c (no
\* transformation, no bounds check), increases the revision by exactly 1 and
\* leaves the history unchanged.
C13_SetContentFrame ==
    [][SetContentReturns
           => /\ document_content' = last'.content
              /\ revision' = revision + 1
              /\ operation_history' = operation_history]_vars

\* C13 witness: an entry accepted at revision 1, before the reset that made
\* revision 2, is still in history and was classified concurrent with the
\* operation accepted at revision 3.
C13_Witness ==
    /\ calls = 3
    /\ last.call = "apply_operation"
    /\ last.result.success
    /\ last.result.conflict_resolved
    /\ Len(operation_history) = 2
    /\ operation_history[1].revision = 1
    /\ operation_history[2].revision = 3
    /\ operation_history[1].client_id # last.operation.client_id

\* the history entries C18 names, from the i-th on, in history order
RECURSIVE ConcurrentEntries(_, _, _)
ConcurrentEntries(incoming, history, i) ==
    IF i > Len(history)
    THEN <<>>
    ELSE (IF /\ history[i].client_id # incoming.client_id
             /\ MeetsRevisionAndWindow(history[i], incoming)
          THEN <<history[i]>>
          ELSE <<>>) \o ConcurrentEntries(incoming, history, i + 1)

\* op transformed against entries[i], entries[i+1], ... one after the other
RECURSIVE ThreadedThrough(_, _, _)
ThreadedThrough(op, entries, i) ==
    IF i > Len(entries)
    THEN op
    ELSE ThreadedThrough(transform_operations(op, entries[i]).fst, entries, i + 1)

\* a and b agree in every field but the revision stamp
SameButRevision(a, b) == [a EXCEPT !.revision = 0] = [b EXCEPT !.revision = 0]

\* C18: the incoming operation is transformed against exactly the history
\* entries with another client_id, a revision >= the incoming revision and a
\* timestamp less than 1000 ms away, in history order; with no such entry no
\* transformation happens.
C18_ConcurrencyDetection ==
    [][ApplyReturns
           => LET entries == ConcurrentEntries(last'.operation, operation_history, 1)
              IN  /\ SameButRevision(last'.final_operation,
                                      ThreadedThrough(last'.operation, entries, 1))
                  /\ last'.result.conflict_resolved = (entries # <<>>)]_vars

\* C18 witness: of two entries of the other client that are new enough, the
\* one 999 ms away was used and the one 1000 ms away was not: the incoming
\* Insert at 1 was shifted once.
C18_Witness ==
    /\ last.call = "apply_operation"
    /\ last.result.success
    /\ Len(operation_history) = 3
    /\ \A i \in {1, 2} :
           /\ operation_history[i].client_id # last.operation.client_id
           /\ operation_history[i].kind = "Insert"
           /\ operation_history[i].position = 0
           /\ operation_history[i].revision >= last.operation.revision
    /\ Abs(operation_history[1].timestamp - last.operation.timestamp) = 999
    /\ Abs(operation_history[2].timestamp - last.operation.timestamp) = 1000
    /\ last.operation.kind = "Insert" /\ last.operation.position = 1
    /\ last.final_operation.position = 2

---------------------------------------------------------------------------
(* The result of a call against the engine it leaves (SpecWindow) *)

\* C15: after a successful apply_operation the final (transformed) operation,
\* stamped with the new revision, is the newest history entry and the last
\* element of transformed_operations, and its revision equals new_revision
\* and the engine's revision; after a failed one transformed_operations does
\* not contain the failed operation.
C15_StampedAppendedReturned ==
    last.call = "apply_operation" =>
        LET returned == last.result.transformed_operations
            n == Len(operation_history)
        IN  IF last.result.success
            THEN /\ n > 0
                 /\ returned # <<>>
                 /\ SameButRevision(
                        operation_history[n],
                        Transformed(last.operation,
                                    SubSeq(operation_history, 1, n - 1)).final_operation)
                 /\ returned[Len(returned)] = operation_history[n]
                 /\ operation_history[n].revision = last.result.new_revision
                 /\ operation_history[n].revision = revision
            ELSE \A i \in DOMAIN returned :
                     /\ ~SameButRevision(returned[i], last.operation)
                     /\ ~SameButRevision(returned[i], last.final_operation)

\* C15 witness: after a set_content, an operation that was shifted by the
\* transformation was accepted at revision 3 on top of a concurrent entry.
C15_Witness ==
    /\ last.call = "apply_operation"
    /\ last.result.success
    /\ last.result.conflict_resolved
    /\ last.final_operation.position # last.operation.position
    /\ Len(operation_history) = 2
    /\ operation_history[2].revision = 3
    /\ last.result.new_revision = 3

---------------------------------------------------------------------------
(* Two concurrent inserts (SpecPair) *)

BothInserts == scenario.A.kind = "Insert" /\ scenario.B.kind = "Insert"

\* content is the base plus the two texts, each in one piece
InsertsIntact(content) ==
    /\ Len(content) = Len(scenario.base) + Len(scenario.A.content) + Len(scenario.B.content)
    /\ Occurrences(scenario.A.content, content) >= 1
    /\ Occurrences(scenario.B.content, content) >= 1
    /\ SelectSeq(content, LAMBDA c: c \in Chars(scenario.base)) = scenario.base

\* C16: two concurrent in-bounds Inserts from different clients, submitted
\* one after the other in either order, both return success, and the final
\* content has length len(base)+len(text1)+len(text2), holds each text as one
\* contiguous piece and every base character in its order.
C16_ConcurrentInserts ==
    BothInserts =>
        /\ EngineDone => /\ progress.results[1].success
                         /\ progress.results[2].success
                         /\ InsertsIntact(document_content)
        /\ ReplicaDone => /\ progress.replica_results[1].success
                          /\ progress.replica_results[2].success
                          /\ InsertsIntact(replica.document_content)

\* C16 witness: B was submitted second, one position right of A's two
\* characters' start, and was moved behind them.
C16_Witness ==
    /\ BothInserts
    /\ EngineDone
    /\ Len(scenario.A.content) = 2
    /\ scenario.B.position = scenario.A.position + 1
    /\ progress.results[2].conflict_resolved
    /\ operation_history[2].position = scenario.B.position + 2

---------------------------------------------------------------------------
(* Operations with positions and lengths up to the word size (SpecWord) *)

\* calls in one behaviour of SpecWord
WordCalls == 3

\* the largest usize
UsizeMax == UsizeModulus - 1

\* positions and lengths at both ends of the word
WordValues == {0, 1, UsizeMax - 1, UsizeMax}

\* the operation types a client submits in SpecWord
WordTypes ==
    {Insert(p, <<"x">>) : p \in WordValues}
    \cup {Delete(p, n) : p \in WordValues, n \in WordValues}

InitSpecWord ==
    /\ InitEngine /\ InitCalls /\ InitPair /\ InitThreads
    /\ InitStore /\ InitPairwise /\ InitChannel
    /\ build \in Builds

\* a caller runs apply_operation(operation); a panic unwinds through the
\* guards (parking_lot locks are not poisoned) before anything was written
ApplyOrPanic(operation) ==
    IF Panics(EngineNow, operation, build)
    THEN /\ last' = [NoCall EXCEPT !.call = "apply_operation",
                                   !.operation = operation, !.outcome = "Panic"]
         /\ calls' = calls + 1
         /\ UNCHANGED engineVars
    ELSE Apply(operation)

WordApplyCall ==
    /\ calls < WordCalls
    /\ \E ty \in WordTypes, c \in Clients :
           ApplyOrPanic(Operation(calls + 1, c, ty, 0, 0))
    /\ UNCHANGED <<pairVars, threadVars, restVars>>

WordSetContentCall ==
    /\ calls < WordCalls
    /\ \E content \in SpecContents : SetContent(content)
    /\ UNCHANGED <<pairVars, threadVars, restVars>>

NextWord == WordApplyCall \/ WordSetContentCall

SpecWord == InitSpecWord /\ [][NextWord]_vars

\* C14: for every engine state and every operation whose position and length
\* are arbitrary usize values, apply_operation returns a result (success or
\* failure) and does not fault on an overflow or an invalid range.
C14_NeverFaults ==
    last.call = "apply_operation" => last.outcome # "Panic"

---------------------------------------------------------------------------
(* transform_operations on its own (SpecTransform)                         *)
(*                                                                         *)
(* Every pair of operations of two clients is given to                     *)
(* transform_operations in both argument orders.                           *)

\* largest position and length of an argument of transform_operations
MaxArg == 3

\* the operation types of the arguments
ArgTypes(texts) ==
    {Insert(p, t) : p \in 0..MaxArg, t \in texts}
    \cup {Delete(p, n) : p \in 0..MaxArg, n \in 0..MaxArg}
    \cup {Retain(MaxArg)}

InitSpecTransform ==
    /\ InitEngine /\ InitCalls /\ InitPair /\ InitThreads /\ InitStore /\ InitBuild
    /\ InitChannel
    /\ \E ty1 \in ArgTypes(TextsA), ty2 \in ArgTypes(TextsB), ts \in PairTimes :
           pairwise = [NoPairwise EXCEPT !.op1 = Operation(1, 1, ty1, ts[1], 1),
                                         !.op2 = Operation(2, 2, ty2, ts[2], 1)]

\* transform_operations(op1, op2) and transform_operations(op2, op1)
TransformCall ==
    /\ ~pairwise.done
    /\ pairwise' = [pairwise EXCEPT
           !.done = TRUE,
           !.forward = transform_operations(pairwise.op1, pairwise.op2),
           !.backward = transform_operations(pairwise.op2, pairwise.op1)]
    /\ UNCHANGED <<engineVars, callVars, pairVars, threadVars, storeVars, build, operation_tx>>

SpecTransform == InitSpecTransform /\ [][TransformCall]_vars

\* op at another position
At(op, position) == [op EXCEPT !.position = position]

\* the insert with the smaller position of two inserts
LowerInsert ==
    IF pairwise.op1.position < pairwise.op2.position THEN pairwise.op1 ELSE pairwise.op2

\* what C19 says becomes of op, one of the two inserts
InsertMoved(op) ==
    IF op = LowerInsert THEN op ELSE At(op, op.position + Len(LowerInsert.content))

\* C19: for two inserts with different positions transform_operations returns
\* the insert with the smaller position unchanged and the other with its
\* position increased by exactly the length of the first one's content and
\* its content unchanged, in both argument orders.
C19_InsertInsertRule ==
    (/\ pairwise.done
     /\ pairwise.op1.kind = "Insert" /\ pairwise.op2.kind = "Insert"
     /\ pairwise.op1.position # pairwise.op2.position)
        => /\ pairwise.forward = Some(InsertMoved(pairwise.op1), InsertMoved(pairwise.op2))
           /\ pairwise.backward = Some(InsertMoved(pairwise.op2), InsertMoved(pairwise.op1))

\* C19 witness: the first argument is the insert with the larger position
\* and was shifted by the two characters of the other.
C19_Witness ==
    /\ pairwise.done
    /\ pairwise.op1.kind = "Insert" /\ pairwise.op2.kind = "Insert"
    /\ pairwise.op1.position > pairwise.op2.position
    /\ Len(pairwise.op1.content) = 1 /\ Len(pairwise.op2.content) = 2
    /\ pairwise.forward.fst.position = pairwise.op1.position + 2
    /\ pairwise.forward.snd = pairwise.op2

\* one argument is an Insert and the other a Delete
InsertAndDelete ==
    {pairwise.op1.kind, pairwise.op2.kind} = {"Insert", "Delete"}

TheInsert == IF pairwise.op1.kind = "Insert" THEN pairwise.op1 ELSE pairwise.op2
TheDelete == IF pairwise.op1.kind = "Delete" THEN pairwise.op1 ELSE pairwise.op2

\* both calls returned ins for the insert and del for the delete, each in the
\* place of its argument
BothOrdersGive(ins, del) ==
    LET result(op) == IF op.kind = "Insert" THEN ins ELSE del
    IN  /\ pairwise.forward = Some(result(pairwise.op1), result(pairwise.op2))
        /\ pairwise.backward = Some(result(pairwise.op2), result(pairwise.op1))

\* the insert is at or before the delete's start: the delete moves right
DeleteShifted ==
    BothOrdersGive(TheInsert,
                   At(TheDelete, TheDelete.position + Len(TheInsert.content)))

\* the insert is at or after the delete's end: the insert moves left
InsertShifted ==
    BothOrdersGive(At(TheInsert, TheInsert.position - TheDelete.length), TheDelete)

\* C20 (as stated): for an Insert at p and a Delete{d, n}, if p <= d the
\* delete's position becomes d+len(text) and the insert is unchanged; if
\* p >= d+n the insert's position becomes p-n and the delete is unchanged;
\* lengths and content are not altered and both argument orders give the
\* same pair.
C20_OutsideRangeAsStated ==
    (pairwise.done /\ InsertAndDelete)
        => /\ (TheInsert.position <= TheDelete.position) => DeleteShifted
           /\ (TheInsert.position >= TheDelete.position + TheDelete.length)
                  => InsertShifted

\* C20 (amended): if p <= d the delete's position becomes d+len(text) and the
\* insert is unchanged; otherwise (p > d), if p >= d+n the insert's position
\* becomes p-n and the delete is unchanged; lengths and content are not
\* altered and both argument orders give the same pair.
C20_OutsideRange ==
    (pairwise.done /\ InsertAndDelete)
        => /\ (TheInsert.position <= TheDelete.position) => DeleteShifted
           /\ (/\ TheInsert.position > TheDelete.position
               /\ TheInsert.position >= TheDelete.position + TheDelete.length)
                  => InsertShifted

\* C20 witness: the delete is the first argument and the insert, at the end
\* of its range of two characters, moved left by two.
C20_Witness ==
    /\ pairwise.done
    /\ pairwise.op1.kind = "Delete" /\ pairwise.op2.kind = "Insert"
    /\ pairwise.op1.length = 2
    /\ pairwise.op2.position = pairwise.op1.position + 2
    /\ pairwise.forward.snd.position = pairwise.op1.position
    /\ pairwise.forward.fst = pairwise.op1
    /\ pairwise.backward.snd = pairwise.op1

---------------------------------------------------------------------------
(* Two deletes, and an operation next to a Retain (SpecTransform) *)

BothDeletes == pairwise.op1.kind = "Delete" /\ pairwise.op2.kind = "Delete"

\* the range of a ends at or before the start of b
EndsBefore(a, b) == a.position + a.length <= b.position

\* what C21 says becomes of the delete op next to the delete other
DeleteMoved(op, other) ==
    IF EndsBefore(other, op) THEN At(op, op.position - other.length) ELSE op

\* C21: for two deletes of which one's range ends at or before the other's
\* start, the earlier-range delete is returned unchanged and the later-range
\* delete keeps its length with its position decreased by exactly the earlier
\* delete's length; no resulting position is negative.
C21_DisjointDeletes ==
    (/\ pairwise.done
     /\ BothDeletes
     /\ EndsBefore(pairwise.op1, pairwise.op2) \/ EndsBefore(pairwise.op2, pairwise.op1))
        => /\ pairwise.forward = Some(DeleteMoved(pairwise.op1, pairwise.op2),
                                      DeleteMoved(pairwise.op2, pairwise.op1))
           /\ pairwise.backward = Some(DeleteMoved(pairwise.op2, pairwise.op1),
                                       DeleteMoved(pairwise.op1, pairwise.op2))
           /\ \A r \in {pairwise.forward, pairwise.backward} :
                  r.fst.position >= 0 /\ r.snd.position >= 0

\* C21 witness: the first argument is a delete of one character right behind
\* the two characters of the second and moved left by two, to position 0.
C21_Witness ==
    /\ pairwise.done
    /\ BothDeletes
    /\ pairwise.op1.position = 2 /\ pairwise.op1.length = 1
    /\ pairwise.op2.position = 0 /\ pairwise.op2.length = 2
    /\ pairwise.forward.fst.position = 0
    /\ pairwise.forward.fst.length = 1
    /\ pairwise.forward.snd = pairwise.op2

\* neither range ends at or before the other's start
OverlappingArguments ==
    /\ BothDeletes
    /\ ~EndsBefore(pairwise.op1, pairwise.op2)
    /\ ~EndsBefore(pairwise.op2, pairwise.op1)

MergedStart == Min(pairwise.op1.position, pairwise.op2.position)
MergedEnd == Max(pairwise.op1.position + pairwise.op1.length,
                 pairwise.op2.position + pairwise.op2.length)

\* op is the merged delete C22 describes
IsMerged(op) ==
    /\ op.kind = "Delete"
    /\ op.position = MergedStart
    /\ op.length = MergedEnd - MergedStart
    /\ op.timestamp = Min(pairwise.op1.timestamp, pairwise.op2.timestamp)

\* the characters of base in the range of del
RangeOf(del, base) ==
    {base[i] : i \in (del.position + 1)..(del.position + del.length)}

\* base without the characters of a set
Without(base, chars) == SelectSeq(base, LAMBDA c: c \notin chars)

\* the range of first removed from base, then what is left of second's
RemovedInTurn(first, second, base) ==
    Without(Without(base, RangeOf(first, base)), RangeOf(second, base))

\* merged, applied once to base, leaves what the two deletes leave in turn
AppliedOnceAsInTurn(merged, base) ==
    /\ InBounds(merged, base)
    /\ Mutated(merged, base) = RemovedInTurn(pairwise.op1, pairwise.op2, base)
    /\ Mutated(merged, base) = RemovedInTurn(pairwise.op2, pairwise.op1, base)

\* C22: for two overlapping deletes both sides of the result are the single
\* Delete{min(p1,p2), max(p1+l1,p2+l2) - min(p1,p2)} with the earlier of the
\* two timestamps, and applying it once to a shared base gives the content
\* left by removing the first range and then the remainder of the second, in
\* either order.
C22_MergedDelete ==
    (pairwise.done /\ OverlappingArguments)
        => \A r \in {pairwise.forward, pairwise.backward} :
               /\ r.tag = "Some"
               /\ r.fst = r.snd
               /\ IsMerged(r.fst)
               /\ \A n \in MergedEnd..Len(Alphabet) : AppliedOnceAsInTurn(r.fst, Base(n))

\* C22 witness: Delete{1, 2} and the earlier-stamped Delete{2, 2} were merged
\* into Delete{1, 3} with the second's timestamp.
C22_Witness ==
    /\ pairwise.done
    /\ OverlappingArguments
    /\ pairwise.op1.position = 1 /\ pairwise.op1.length = 2
    /\ pairwise.op2.position = 2 /\ pairwise.op2.length = 2
    /\ pairwise.op2.timestamp < pairwise.op1.timestamp
    /\ pairwise.forward.fst.position = 1
    /\ pairwise.forward.fst.length = 3
    /\ pairwise.forward.fst.timestamp = pairwise.op2.timestamp
    /\ Mutated(pairwise.forward.fst, Base(4)) = <<"a">>

\* the insert is strictly inside the range of the delete
InsertInsideDelete ==
    /\ InsertAndDelete
    /\ TheDelete.position < TheInsert.position
    /\ TheInsert.position < TheDelete.position + TheDelete.length

\* the deletes of a result
ResultDeletes(r) == SelectSeq(<<r.fst, r.snd>>, LAMBDA op: op.kind = "Delete")

\* the number of characters the deletes of a result remove
RemovedBy(r) ==
    LET deletes == ResultDeletes(r)
    IN  (IF Len(deletes) >= 1 THEN deletes[1].length ELSE 0)
            + (IF Len(deletes) >= 2 THEN deletes[2].length ELSE 0)

\* C23: for an Insert at p strictly inside Delete{d, n} the result keeps the
\* insert unchanged and holds a delete of the p-d characters before the insert
\* and a delete of the n-(p-d) characters after it, so that its deletes
\* together remove all n characters.
C23_SplitRemovesAll ==
    (pairwise.done /\ InsertInsideDelete)
        => \A r \in {pairwise.forward, pairwise.backward} :
               /\ TheInsert \in {r.fst, r.snd}
               /\ RemovedBy(r) = TheDelete.length

\* C24: transform_operations with a Retain as either argument, or as both,
\* returns both operations unchanged.
C24_RetainPassThrough ==
    (pairwise.done /\ "Retain" \in {pairwise.op1.kind, pairwise.op2.kind})
        => /\ pairwise.forward = Some(pairwise.op1, pairwise.op2)
           /\ pairwise.backward = Some(pairwise.op2, pairwise.op1)

\* C24 witness: a Retain was paired with a delete of two characters at
\* position 1 and both came back as they were, in both argument orders.
C24_Witness ==
    /\ pairwise.done
    /\ pairwise.op1.kind = "Retain" /\ pairwise.op1.length > 0
    /\ pairwise.op2.kind = "Delete"
    /\ pairwise.op2.position = 1 /\ pairwise.op2.length = 2
    /\ pairwise.forward.fst = pairwise.op1 /\ pairwise.forward.snd = pairwise.op2
    /\ pairwise.backward.fst = pairwise.op2 /\ pairwise.backward.snd = pairwise.op1

---------------------------------------------------------------------------
(* The apply step at every place of a short document (SpecApply)           *)
(*                                                                         *)
(* Two clients submit inserts, deletes and retains at, before and behind   *)
(* the end of the content.  All operations carry revision 0 and one        *)
(* timestamp: an operation is concurrent with every history entry of the   *)
(* other client and with none of its own.                                  *)

\* calls in one behaviour of SpecApply
ApplyCalls == 2

\* positions and lengths submitted in SpecApply
ApplyValues == {0, 1, 2, 3}

\* lengths of the retains submitted in SpecApply
RetainLengths == {0, 1, 5}

\* the operation types a client submits in SpecApply
ApplyTypes ==
    {Insert(p, <<"x", "y">>) : p \in ApplyValues}
    \cup {Delete(p, n) : p \in ApplyValues, n \in ApplyValues}
    \cup {Retain(n) : n \in RetainLengths}

PlainApplyCall ==
    /\ calls < ApplyCalls
    /\ \E ty \in ApplyTypes, c \in Clients : Apply(Operation(calls + 1, c, ty, 0, 0))
    /\ UNCHANGED <<pairVars, threadVars, restVars>>

PlainSetContentCall ==
    /\ calls < ApplyCalls
    /\ \E content \in SpecContents : SetContent(content)
    /\ UNCHANGED <<pairVars, threadVars, restVars>>

NextApply == PlainApplyCall \/ PlainSetContentCall

SpecApply == Init /\ [][NextApply]_vars

\* C25: applying a Retain of any length, also one longer than the content,
\* leaves the content unchanged, succeeds, increases the revision by 1 and
\* appends the Retain to history.
C25_RetainIsNoOp ==
    [][(ApplyReturns /\ last'.operation.kind = "Retain")
           => /\ last'.result.success
              /\ document_content' = document_content
              /\ revision' = revision + 1
              /\ operation_history' =
                     Append(operation_history,
                            [last'.operation EXCEPT !.revision = revision + 1])]_vars

\* C25 witness: a Retain longer than the content was accepted on top of a
\* concurrent insert of the other client and is the newest history entry.
C25_Witness ==
    /\ last.call = "apply_operation"
    /\ last.operation.kind = "Retain"
    /\ last.operation.length > Len(document_content)
    /\ last.result.success
    /\ last.result.conflict_resolved
    /\ Len(operation_history) = 2
    /\ operation_history[1].kind = "Insert"
    /\ operation_history[2].kind = "Retain"
    /\ operation_history[2].revision = 2
    /\ document_content = <<"x", "y">>

\* no history entry is concurrent with the operation of this call
NoneConcurrent == ConcurrentEntries(last'.operation, operation_history, 1) = <<>>

\* c[0..p) ++ text ++ c[p..)
Spliced(c, p, text) == SubSeq(c, 1, p) \o text \o SubSeq(c, p + 1, Len(c))

\* c[0..p) ++ c[p+n..)
Cut(c, p, n) == SubSeq(c, 1, p) \o SubSeq(c, p + n + 1, Len(c))

\* C26: with no concurrent history entry a successful Insert{p, text} changes
\* the content c into c[0..p) ++ text ++ c[p..) and a successful Delete{p, n}
\* changes it into c[0..p) ++ c[p+n..).
C26_ApplySemantics ==
    [][(ApplyReturns /\ NoneConcurrent /\ last'.result.success)
           => LET op == last'.operation
              IN  /\ op.kind = "Insert"
                       => document_content' = Spliced(document_content, op.position, op.content)
                  /\ op.kind = "Delete"
                       => document_content' = Cut(document_content, op.position, op.length)]_vars

\* C26 witness: "xy" was inserted at position 1 of "ab" with no concurrent
\* entry in history.
C26_Witness ==
    /\ last.call = "apply_operation"
    /\ last.operation.kind = "Insert" /\ last.operation.position = 1
    /\ last.result.success
    /\ ~last.result.conflict_resolved
    /\ document_content = <<"a", "x", "y", "b">>

\* C27: with no concurrent history entry apply_operation accepts an Insert
\* exactly when position <= len(content) and a Delete exactly when
\* position+length <= len(content), a Delete with position = len(content) and
\* length 0 included.
C27_AcceptanceMatchesValidity ==
    [][(ApplyReturns /\ NoneConcurrent)
           => LET op == last'.operation
              IN  /\ op.kind = "Insert"
                       => last'.result.success = (op.position <= Len(document_content))
                  /\ op.kind = "Delete"
                       => last'.result.success =
                              (op.position + op.length <= Len(document_content))]_vars

---------------------------------------------------------------------------
(* Accepted, rejected and reset calls around a full history (SpecFifo)     *)
(*                                                                         *)
(* Client 1 fills the history with retains as in SpecHistory.  From one    *)
(* entry below max_history_size on, a call may also be an insert of client *)
(* 2 behind the end of every content, which fails, or a set_content.       *)

\* the history is one entry below its cap, or full
NearlyFull == Len(operation_history) >= max_history_size - 1

\* an insert that is out of bounds on every content of SpecContents, based
\* on the current revision: of the entries of client 1 only the newest can
\* be concurrent with it
RejectedOperation == Operation(calls + 1, 2, Insert(MaxPos + 1, <<"x">>), 0, revision)

\* the operations submitted in the current state
FifoOperations ==
    IF NearlyFull THEN {HistoryOperation, RejectedOperation} ELSE {HistoryOperation}

FifoApplyCall ==
    /\ calls < max_history_size + ExtraCalls
    /\ \E operation \in FifoOperations : Apply(operation)
    /\ UNCHANGED <<pairVars, threadVars, restVars>>

FifoSetContentCall ==
    /\ calls < max_history_size + ExtraCalls
    /\ NearlyFull
    /\ \E content \in SpecContents : SetContent(content)
    /\ UNCHANGED <<pairVars, threadVars, restVars>>

NextFifo == FifoApplyCall \/ FifoSetContentCall

SpecFifo == Init /\ [][NextFifo]_vars

\* the entries of history are in the order of their acceptance
InAcceptanceOrder(history) ==
    \A i \in 1..(Len(history) - 1) : history[i].revision < history[i + 1].revision

\* C28: an accepted operation is appended, as it was applied, behind the
\* entries accepted before it; when the append would exceed the cap exactly
\* one entry, the oldest, is evicted; a rejected operation and set_content
\* add and remove no entry.
C28_HistoryFifo ==
    [][/\ (ApplyReturns /\ last'.result.success)
              => /\ operation_history' =
                        (IF Len(operation_history) = max_history_size
                         THEN Tail(operation_history)
                         ELSE operation_history) \o <<last'.final_operation>>
                 /\ InAcceptanceOrder(operation_history')
       /\ (ApplyReturns /\ ~last'.result.success)
              => operation_history' = operation_history
       /\ SetContentReturns
              => operation_history' = operation_history]_vars

\* C28 witness: the first accepted operation was evicted when the 1001st was
\* appended, and the rejected call after that left the full history as it was.
C28_Witness ==
    /\ last.call = "apply_operation"
    /\ ~last.result.success
    /\ last.operation.id = max_history_size + 2
    /\ Len(operation_history) = max_history_size
    /\ operation_history[1].id = 2
    /\ operation_history[max_history_size].id = max_history_size + 1

---------------------------------------------------------------------------
(* Several concurrent entries (SpecLoop)                                   *)
(*                                                                         *)
(* The engine loads a base and two clients submit operations against it,   *)
(* all with revision 0 and one timestamp: every entry of the other client  *)
(* is concurrent with an incoming operation.                               *)

\* calls in one behaviour of SpecLoop, the set_content included
LoopCalls == 4

LoopLoadCall ==
    /\ calls = 0
    /\ \E content \in SpecContents : SetContent(content)
    /\ UNCHANGED <<pairVars, threadVars, restVars>>

LoopApplyCall ==
    /\ calls >= 1
    /\ calls < LoopCalls
    /\ \E ty \in WindowTypes, c \in Clients : Apply(Operation(calls + 1, c, ty, 0, 0))
    /\ UNCHANGED <<pairVars, threadVars, restVars>>

NextLoop == LoopLoadCall \/ LoopApplyCall

SpecLoop == Init /\ [][NextLoop]_vars

\* the outputs of the steps: out[0] is op, and out[i] is what the step
\* against entries[i] makes of out[i-1]
StepOutputs(op, entries) ==
    LET out[i \in 0..Len(entries)] ==
            IF i = 0 THEN op ELSE transform_operations(out[i - 1], entries[i]).fst
    IN  out

\* C29: when several history entries are concurrent with the incoming
\* operation, it is transformed against them one at a time in history order,
\* each step taking the output of the previous step, and the operation
\* applied to the content is the output of the last step.
C29_Threading ==
    [][ApplyReturns
           => LET entries == ConcurrentEntries(last'.operation, operation_history, 1)
                  applied == StepOutputs(last'.operation, entries)[Len(entries)]
              IN  Len(entries) >= 2
                      => /\ SameEdit(last'.final_operation, applied)
                         /\ document_content' = IF last'.result.success
                                                 THEN Edited(applied, document_content)
                                                 ELSE document_content]_vars

\* C29 witness: on "ab" behind two inserts of the other client at 0 and at 1
\* the incoming Delete{0, 1} went to position 1 and from there to 2, and took
\* the "a" (against the newer insert first it would have ended at 1).
C29_Witness ==
    /\ last.call = "apply_operation"
    /\ last.result.success
    /\ Len(operation_history) = 3
    /\ operation_history[1].client_id # last.operation.client_id
    /\ operation_history[2].client_id # last.operation.client_id
    /\ operation_history[1].kind = "Insert" /\ operation_history[1].position = 0
    /\ operation_history[2].kind = "Insert" /\ operation_history[2].position = 1
    /\ last.operation.kind = "Delete" /\ last.operation.position = 0
    /\ last.final_operation.position = 2
    /\ document_content = <<"x", "x", "b">>

---------------------------------------------------------------------------
(* The conflict flag of a result (SpecWindow) *)

\* the history the last call of apply_operation found (the history is below
\* its cap in SpecWindow: nothing was evicted)
HistoryBefore ==
    IF last.result.success
    THEN SubSeq(operation_history, 1, Len(operation_history) - 1)
    ELSE operation_history

\* entry is of another client, not older than the incoming operation's
\* revision and less than the window away from it
ClassifiedConcurrent(entry, incoming) ==
    /\ entry.client_id # incoming.client_id
    /\ entry.revision >= incoming.revision
    /\ Abs(entry.timestamp - incoming.timestamp) < ConcurrencyWindowMs

\* C30: apply_operation returns conflict_resolved = true exactly when at
\* least one history entry was classified concurrent with the incoming
\* operation, whether or not the transform changed the operation and whether
\* or not the call then succeeded.
C30_ConflictFlag ==
    last.call = "apply_operation"
        => last.result.conflict_resolved =
               (\E i \in DOMAIN HistoryBefore :
                    ClassifiedConcurrent(HistoryBefore[i], last.operation))

\* C30 witness: a delete came out of two steps as it was submitted and then
\* failed the bounds check on the empty content; the flag is set.
C30_Witness ==
    /\ last.call = "apply_operation"
    /\ ~last.result.success
    /\ last.result.conflict_resolved
    /\ last.operation.kind = "Delete"
    /\ SameEdit(last.final_operation, last.operation)
    /\ Len(operation_history) = 2
    /\ document_content = <<>>

---------------------------------------------------------------------------
(* Why a call fails (SpecApply) *)

\* op does not pass the test of the apply step on content
FailsBoundsCheck(op, content) ==
    \/ op.kind = "Insert" /\ op.position > Len(content)
    \/ op.kind = "Delete" /\ ~(op.position < Len(content)
                               /\ op.position + op.length <= Len(content))

---------------------------------------------------------------------------
(* Operations based on the current revision (SpecWindow) *)

\* C33: an operation whose base revision equals the engine's current revision
\* is applied with exactly its submitted position and length: it is not
\* transformed against any history entry, also not against one of another
\* client that is less than a second older.
C33_CurrentRevisionNotTransformed ==
    [][(ApplyReturns /\ last'.operation.revision = revision)
           => /\ SameEdit(last'.final_operation, last'.operation)
              /\ document_content' = IF last'.result.success
                                      THEN Edited(last'.operation, document_content)
                                      ELSE document_content]_vars

---------------------------------------------------------------------------
(* Whose operation is applied (SpecPair) *)

\* a is the operation b as far as id, client, kind and inserted text go
SameIdentity(a, b) ==
    /\ a.id = b.id
    /\ a.client_id = b.client_id
    /\ a.kind = b.kind
    /\ a.kind = "Insert" => a.content = b.content

\* the results of two calls with the operations first and second, against the
\* history they left: an accepted operation came back and was appended as
\* itself, and no id is in the history twice
AppliedAsSubmitted(results, history, first, second) ==
    LET submitted == <<first, second>>
    IN  /\ \A i \in {1, 2} :
               results[i].success
                   => LET returned == results[i].transformed_operations
                      IN  /\ returned # <<>>
                          /\ SameIdentity(returned[Len(returned)], submitted[i])
        /\ \A i, j \in DOMAIN history : history[i].id = history[j].id => i = j

\* C34: the operation a successful apply_operation applies, appends to history
\* and returns has the id, client_id and kind (for an Insert also the text)
\* of the submitted operation; with distinct submitted ids no id occurs twice
\* in history.
C34_IdentityPreserved ==
    /\ EngineDone => AppliedAsSubmitted(progress.results, operation_history,
                                        scenario.A, scenario.B)
    /\ ReplicaDone => AppliedAsSubmitted(progress.replica_results,
                                         replica.operation_history,
                                         scenario.B, scenario.A)

---------------------------------------------------------------------------
(* Two concurrent operations that do not conflict (SpecPair) *)

\* A and B do not conflict: two inserts at different positions, an insert at
\* or before a delete's start or at or after its end, or two deletes with
\* disjoint non-empty ranges
NonConflicting ==
    LET A == scenario.A
        B == scenario.B
        outside(ins, del) ==
            \/ ins.position <= del.position
            \/ ins.position >= del.position + del.length
    IN  \/ A.kind = "Insert" /\ B.kind = "Insert" /\ A.position # B.position
        \/ A.kind = "Insert" /\ B.kind = "Delete" /\ outside(A, B)
        \/ A.kind = "Delete" /\ B.kind = "Insert" /\ outside(B, A)
        \/ /\ A.kind = "Delete" /\ B.kind = "Delete"
           /\ A.length > 0 /\ B.length > 0
           /\ \/ A.position + A.length <= B.position
              \/ B.position + B.length <= A.position

\* what op puts in front of the base character at index i (counted from 0)
InsertedAt(op, i) ==
    IF op.kind = "Insert" /\ op.position = i THEN op.content ELSE <<>>

\* op removes the base character at index i (counted from 0)
Removes(op, i) ==
    op.kind = "Delete" /\ op.position <= i /\ i < op.position + op.length

\* the base from index i on with both edits at their base positions
RECURSIVE BothEdits(_, _, _, _)
BothEdits(base, A, B, i) ==
    IF i > Len(base)
    THEN <<>>
    ELSE InsertedAt(A, i) \o InsertedAt(B, i)
           \o (IF i < Len(base) /\ ~Removes(A, i) /\ ~Removes(B, i)
               THEN <<base[i + 1]>> ELSE <<>>)
           \o BothEdits(base, A, B, i + 1)

Intended == BothEdits(scenario.base, scenario.A, scenario.B, 0)

\* C35: two concurrent in-bounds operations of different clients that do not
\* conflict give, submitted in either order, the same final content: the base
\* with both edits applied at their base positions.
C35_NonConflictingConverge ==
    NonConflicting =>
        /\ EngineDone => document_content = Intended
        /\ ReplicaDone => replica.document_content = Intended

\* C35 witness: Delete{0, 1} and the adjacent Delete{1, 2} on "abcd", given in
\* both orders, left "d" on both engines.
C35_Witness ==
    /\ EngineDone /\ ReplicaDone
    /\ scenario.base = <<"a", "b", "c", "d">>
    /\ scenario.A.kind = "Delete" /\ scenario.A.position = 0 /\ scenario.A.length = 1
    /\ scenario.B.kind = "Delete" /\ scenario.B.position = 1 /\ scenario.B.length = 2
    /\ document_content = <<"d">>
    /\ replica.document_content = <<"d">>
    /\ progress.results[2].conflict_resolved
    /\ progress.replica_results[2].conflict_resolved

---------------------------------------------------------------------------
(* The revisions of the history entries (SpecWindow) *)

\* the revision fields of history, oldest first
Revisions(history) == [i \in DOMAIN history |-> history[i].revision]

\* C36: the revisions of the history entries strictly increase from oldest to
\* newest and none exceeds the engine's revision; right after a successful
\* apply_operation the newest entry's revision is the engine's revision.
C36_HistoryRevisions ==
    LET revs == Revisions(operation_history)
    IN  /\ \A i, j \in DOMAIN revs : i < j => revs[i] < revs[j]
        /\ \A i \in DOMAIN revs : revs[i] <= revision
        /\ (last.call = "apply_operation" /\ last.outcome = "Ok" /\ last.result.success)
               => /\ operation_history # <<>>
                  /\ revs[Len(revs)] = revision

\* C36 witness: an operation was accepted, set_content then raised the
\* revision past it, and a further accepted operation is the newest entry.
C36_Witness ==
    /\ last.call = "apply_operation" /\ last.result.success
    /\ Revisions(operation_history) = <<1, 3>>
    /\ revision = 3

---------------------------------------------------------------------------
(* set_content among concurrent callers (SpecThreads) *)

\* set_content has overwritten the content and not yet raised the revision
BetweenWrites == pc[Setter] \in {"sr", "sr_write"}

\* C37: between set_content's overwrite of the content and its revision
\* increment no apply_operation call is between detection and return and no
\* getter copies a field, so nobody sees the new content with the old revision.
C37_SetContentAtomic ==
    BetweenWrites =>
        /\ \A a \in Appliers : pc[a] \notin Critical
        /\ pc[Reader] \notin {"gr_read", "gc_read"}

---------------------------------------------------------------------------
(* Concurrent callers under fair lock scheduling (SpecThreadsFair) *)

\* the steps of thread t
ThreadStep(t) ==
    \/ /\ t \in Appliers
       /\ \/ ApplyLock(t) \/ ApplyTransform(t) \/ ApplyMutate(t)
          \/ ApplyBump(t) \/ ApplyPush(t) \/ ApplyReturn(t)
    \/ t = Reader /\ (ReaderLock \/ ReaderRead)
    \/ t = Setter /\ (SetterLock \/ SetterWrite)

\* a thread that can take its next step does so in the end: a running call
\* goes on, and a lock that stays free is granted to a caller waiting for it
SpecThreadsFair == SpecThreads /\ \A t \in Threads : WF_vars(ThreadStep(t))

\* every call has returned
AllReturned == \A t \in Threads : pc[t] = "done"

\* the lock thread t is about to take, or "none"
Wanted(t) ==
    CASE t \in Appliers /\ pc[t] = "start" -> "content"
      [] t \in Appliers /\ pc[t] = "lock2" -> "history"
      [] t \in Appliers /\ pc[t] = "lock3" -> "revision"
      [] t = Reader /\ pc[t] = "start" -> "revision"
      [] t = Reader /\ pc[t] = "gc" -> "content"
      [] t = Setter /\ pc[t] = "start" -> "content"
      [] t = Setter /\ pc[t] = "sr" -> "revision"
      [] OTHER -> "none"

\* thread u holds a guard of lock l
Holds(u, l) == lock[l].writer = u \/ u \in lock[l].readers

\* thread t waits for a lock that thread u holds
WaitsFor(t, u) ==
    /\ t # u
    /\ Wanted(t) # "none"
    /\ Holds(u, Wanted(t))
    /\ (t = Reader => lock[Wanted(t)].writer = u)

\* thread t waits, directly or through others, for thread u: chains of up to
\* n waits
RECURSIVE WaitsThrough(_, _, _)
WaitsThrough(t, u, n) ==
    \/ WaitsFor(t, u)
    \/ n > 1 /\ \E v \in Threads : WaitsFor(t, v) /\ WaitsThrough(v, u, n - 1)

\* C38: no callers wait for each other's locks in a cycle, and under fair
\* lock scheduling every call gets its locks and returns.
C38_DeadlockFree ==
    /\ [](\A t \in Threads : ~WaitsThrough(t, t, NumAppliers + 2))
    /\ <>AllReturned

\* C38 witness: one apply_operation call holds the content and the history
\* lock while the other appliers, the reader's get_content and set_content
\* all wait for the content lock.
C38_Witness ==
    /\ pc[1] = "lock3"
    /\ lock["content"].writer = 1 /\ lock["history"].writer = 1
    /\ \A t \in Appliers \ {1} : pc[t] = "start"
    /\ pc[Reader] = "gc"
    /\ pc[Setter] = "start"
    /\ \A t \in Threads \ {1} : WaitsFor(t, 1)

---------------------------------------------------------------------------
(* What a reader gets from get_revision, then get_content (SpecThreads) *)

\* the reader's get_content copies the content in this step
ReaderCopiesContent == pc[Reader] = "gc_read" /\ pc'[Reader] = "done"

\* the appliers whose calls have been through detection
Detected == {t \in Appliers : pc[t] \in Critical \cup {"done"}}

\* the applier that raised the revision to v, if one did
RaisedBy(v) ==
    {t \in Appliers : local[t].stamped # NoOperation /\ local[t].stamped.revision = v}

\* the content the accepted call of applier t wrote
WrittenBy(t) == Mutated(local[t].st.final_operation, local[t].before.document_content)

\* set_content has written: its text is in the content, or in the content
\* an applier found
SetterHasWritten ==
    \/ document_content = SetterContent
    \/ \E i \in DOMAIN document_content : document_content[i] = SetterContent[1]
    \/ \E u \in Detected : \E i \in DOMAIN local[u].before.document_content :
           local[u].before.document_content[i] = SetterContent[1]

\* what applier t wrote is the content, or the content a later applier
\* found, or set_content has written over it
ApplierHasWritten(t) ==
    \/ document_content = WrittenBy(t)
    \/ \E u \in Detected \ {t} : local[u].before.document_content = WrittenBy(t)
    \/ SetterHasWritten

\* the mutation that raised the revision to v has written the content
EffectIncluded(v) ==
    IF RaisedBy(v) # {}
    THEN \A t \in RaisedBy(v) : ApplierHasWritten(t)
    ELSE SetterHasWritten

\* C39: when a reader's get_content, called after its get_revision returned
\* r, copies the content, every mutation that raised the revision to a value
\* of at most r has written the content.
C39_ReaderConsistency ==
    [][ReaderCopiesContent
           => \A v \in 1..observed[Reader].revision : EffectIncluded(v)]_vars

\* C39 witness: the reader got revision 2, raised by an accepted insert and by
\* set_content, and then the content with both.
C39_Witness ==
    /\ pc[Reader] = "done" /\ pc[Setter] = "done"
    /\ observed[Reader].revision = 2
    /\ observed[Reader].content = <<"x">> \o SetterContent
    /\ \E t \in Appliers : pc[t] = "done" /\ observed[t].result.success

---------------------------------------------------------------------------
(* The apply_operation command of the application (SpecCommand)            *)
(* (src/templates/performance/real-time-collaboration/src/main.rs)         *)
(*                                                                         *)
(* The frontend invokes the command with a session identifier and an       *)
(* operation that parse.  operation_tx holds every value the handler has   *)
(* passed to broadcast::Sender::send, in order.                            *)

\* command invocations in one behaviour of SpecCommand
CommandCalls == 3

\* apply_operation (tauri command), lines 143-160: the engine call, the ? on
\* its error and the send
CommandApplyOperation(operation) ==
    /\ Apply(operation)
    /\ operation_tx' = IF last'.outcome = "Err"
                       THEN operation_tx
                       ELSE Append(operation_tx, operation)

CommandCall ==
    /\ calls < CommandCalls
    /\ \E ty \in WindowTypes, c \in Clients :
           CommandApplyOperation(Operation(calls + 1, c, ty, 0, 0))
    /\ UNCHANGED <<pairVars, threadVars, store, store_log, pairwise, build>>

SpecCommand == Init /\ [][CommandCall]_vars

\* C31: the command handler sends to the broadcast channel the transformed
\* operations the engine returned, and so nothing for an operation the engine
\* rejected and never the submitted operation in place of the transformed one
\* (the revision stamp of a sent operation is left open).
C31_BroadcastsTransformed ==
    [][ApplyReturns
           => LET sent == SubSeq(operation_tx', Len(operation_tx) + 1, Len(operation_tx'))
                  returned == last'.result.transformed_operations
              IN  /\ Len(sent) = Len(returned)
                  /\ \A i \in DOMAIN sent : SameButRevision(sent[i], returned[i])]_vars

---------------------------------------------------------------------------
(* The document store called sequentially (SpecStore) *)

\* DocumentManager calls in one behaviour of SpecStore
StoreCalls == 4
\* documents created in one behaviour of SpecStore
StoreDocs == 1

\* the contents of tests::test_version_rollback
StoreContents == {"Version 1", "Version 2", "Version 3"}

\* the document identifiers callers pass
StoreIds == 1..StoreDocs

\* the version numbers callers pass to rollback_to_version
StoreVersions == 1..(StoreCalls + 1)

\* the contents a document has had, by version number, with one more
Recorded(content_at, document_id, content) ==
    IF document_id \in DOMAIN content_at
    THEN [content_at EXCEPT ![document_id] = Append(@, content)]
    ELSE content_at

\* create_document(content): the new document gets the next identifier
CreateDocumentCall ==
    /\ store_log.calls < StoreCalls
    /\ Cardinality(DOMAIN store.documents) < StoreDocs
    /\ \E content \in StoreContents :
           LET document_id == Cardinality(DOMAIN store.documents) + 1
           IN  /\ store' = create_document(store, document_id, content)
               /\ store_log' = [store_log EXCEPT
                      !.call = "create_document", !.document_id = document_id,
                      !.target_version = 0, !.outcome = "Ok", !.calls = @ + 1,
                      !.content_at = Inserted(@, document_id, <<content>>)]
    /\ UNCHANGED <<engineVars, callVars, pairVars, threadVars, pairwise, build, operation_tx>>

\* update_document_content(document_id, content)
UpdateDocumentContentCall ==
    /\ store_log.calls < StoreCalls
    /\ \E document_id \in StoreIds, content \in StoreContents :
           LET r == update_document_content(store, document_id, content)
           IN  /\ store' = r.manager
               /\ store_log' = [store_log EXCEPT
                      !.call = "update_document_content", !.document_id = document_id,
                      !.target_version = 0, !.outcome = r.outcome, !.calls = @ + 1,
                      !.content_at = Recorded(@, document_id, content)]
    /\ UNCHANGED <<engineVars, callVars, pairVars, threadVars, pairwise, build, operation_tx>>

\* rollback_to_version(document_id, target_version)
RollbackToVersionCall ==
    /\ store_log.calls < StoreCalls
    /\ \E document_id \in StoreIds, target_version \in StoreVersions :
           LET r == rollback_to_version(store, document_id, target_version)
               written == r.manager # store
           IN  /\ store' = r.manager
               /\ store_log' = [store_log EXCEPT
                      !.call = "rollback_to_version", !.document_id = document_id,
                      !.target_version = target_version, !.outcome = r.outcome,
                      !.calls = @ + 1, !.rollbacks = @ + 1,
                      !.version_before =
                          IF document_id \in DOMAIN store.documents
                          THEN store.documents[document_id].version ELSE 0,
                      !.content_at =
                          IF written
                          THEN Recorded(@, document_id, r.manager.documents[document_id].content)
                          ELSE @]
    /\ UNCHANGED <<engineVars, callVars, pairVars, threadVars, pairwise, build, operation_tx>>

NextStore == CreateDocumentCall \/ UpdateDocumentContentCall \/ RollbackToVersionCall

SpecStore == Init /\ [][NextStore]_vars

\* the last call was the first rollback of an existing document, to a version
\* number the document had had before the call and whose snapshot was kept
RolledBackToKnownVersion ==
    /\ store_log.call = "rollback_to_version"
    /\ store_log.rollbacks = 1
    /\ store_log.document_id \in DOMAIN store.documents
    /\ store_log.target_version >= 1
    /\ store_log.target_version <= store_log.version_before
    /\ store_log.version_before <= max_versions_per_document

\* C17: after create_document and any sequence of update_document_content
\* calls, rollback_to_version(doc, v) for a version number v the document has
\* had succeeds and sets the content to the content the document had when its
\* version was v.
C17_RollbackRestoresVersion ==
    RolledBackToKnownVersion =>
        /\ store_log.outcome = "Ok"
        /\ store.documents[store_log.document_id].content =
               store_log.content_at[store_log.document_id][store_log.target_version]

=============================================================================
